---- MODULE Spec2Model ----
(***************************************************************************)
(* A model of the jadjer/esp32-nimble GATT wrapper:                        *)
(*   - the Server event dispatcher and the Service attribute-table         *)
(*     compiler (src/src/Server.cpp, src/src/Service.cpp),                 *)
(*   - the AttributeValue buffer (src/include/nimble/AttributeValue.hpp),  *)
(*   - the blocking bridge of RemoteDescriptor / RemoteService             *)
(*     (src/src/RemoteDescriptor.cpp, src/src/RemoteService.cpp).          *)
(* Each part has its own next-state relation and specification; the        *)
(* variables of the other parts stay at their initial values.              *)
(***************************************************************************)
EXTENDS Integers, Sequences, FiniteSets, TLC

(***************************************************************************)
(* Bounds of the model.                                                    *)
(***************************************************************************)
MaxSvc == 2
MaxChr == 2
MaxDsc == 1
MaxConn == 2
MaxUuid == 2
MaxNotify == 2
MaxAdmit == 2
MaxData == 2
MaxByte == 1
MaxBlock == 2
MaxMtu == 5
MaxPayload == 3
MaxFragment == 2
MaxOm == 3
MaxTotal == 3
MaxSubChr == 2
MaxSubVal == 1
MaxRequest == 4
MaxDisc == 3

(***************************************************************************)
(* Program constants.                                                      *)
(***************************************************************************)
NULL_HANDLE == 65535
BLE_HS_CONN_HANDLE_NONE == 65535
NIMBLE_ATT_REMOVE_HIDE == 1
NIMBLE_ATT_REMOVE_DELETE == 2
BLE_HS_EDONE == 14
BLE_ATT_ATTR_MAX_LEN == 512
CONFIG_NIMBLE_CPP_ATT_VALUE_INIT_LENGTH == 20

SvcIds == 1..MaxSvc
ChrIds == 1..MaxChr
DscIds == 1..MaxDsc
ConnHandles == 1..MaxConn
Uuids == 1..MaxUuid
Nullptr == [isNull |-> TRUE, characteristics |-> <<>>]

\* Service.cpp 200, 211: the entry with a null uuid that ends an array
DscSentinel == [dsc |-> 0]
ChrSentinel == [chr |-> 0, flags |-> {}, dscs |-> <<>>]

\* Service.cpp 150-151, 183-184: no array is allocated for no entries (the
\* pointer is null, written <<>>); an allocated array has one entry more
\* than it has attributes
Terminated(q, end) == IF q = <<>> THEN <<>> ELSE Append(q, end)

\* the entries of an array as the host reads them: up to the first null uuid
RECURSIVE UpToEnd(_, _)
UpToEnd(a, end) ==
  IF a = <<>> \/ Head(a) = end THEN <<>>
  ELSE <<Head(a)>> \o UpToEnd(Tail(a), end)

VARIABLES
  m_svcVec,             \* Server::m_svcVec, a sequence of service objects
  m_connectedPeersVec,  \* Server::m_connectedPeersVec
  m_gattsStarted,       \* Server::m_gattsStarted
  m_svcChanged,         \* Server::m_svcChanged
  m_indWait,            \* Server::m_indWait[CONFIG_BT_NIMBLE_MAX_CONNECTIONS]
  m_notifyChrVec,       \* Server::m_notifyChrVec
  services,             \* the Service objects, by identity
  characteristics,      \* the Characteristic objects, by identity
  descriptors,          \* the Descriptor objects, by identity
  gatts,                \* the host stack's attribute table
  app,                  \* how many services and characteristics the application builds
  indAdmitted,          \* connections with an admitted, unacknowledged indication (observation only)
  obs,                  \* what the last operation did (observation only)
  crashed               \* abort(), or a crash on a freed object

srvVars == <<m_svcVec, m_connectedPeersVec, m_gattsStarted, m_svcChanged,
             m_indWait, m_notifyChrVec, services, characteristics,
             descriptors, gatts, app, indAdmitted, obs, crashed>>

VARIABLES
  values,               \* the AttributeValue objects of a program, by name
  call                  \* the last operation on them (observation only)

valVars == <<values, call>>

VARIABLES
  m_value,              \* Descriptor::m_value, written by one task and read by another
  blocks,               \* the heap blocks its buffer pointer can refer to
  writer,               \* where the writing task is in setValue / append
  reader                \* what the last read access found (observation only)

raceVars == <<m_value, blocks, writer, reader>>

VARIABLES
  m_connEstablished,       \* Client: what isConnected() answers
  m_characteristicVector,  \* RemoteService: the characteristics discovered
  task,                    \* the application task inside a bridge operation
  log                      \* requests, completions and security upgrades of
                           \* the operation in progress or last returned

bridgeVars == <<m_connEstablished, m_characteristicVector, task, log>>

VARIABLES
  pDescriptor,          \* the Descriptor an access callback is registered for
  ctxt                  \* the last access to it: fragments, code returned,
                        \* what the handler stored and called (observation only)

accVars == <<pDescriptor, ctxt>>

VARIABLES
  notifyChrs,           \* the characteristics Server::m_notifyChrVec points to:
                        \* handle, properties, Characteristic::m_subscribedVec
  subscribe             \* the last subscribe event and what its handler
                        \* called (observation only)

subVars == <<notifyChrs, subscribe>>

VARIABLES
  caller,               \* the calling context of a bridge operation, statement
                        \* by statement: its place, its task notification
                        \* value, the operation record it shares with the host
  inflight              \* the host holds a request whose terminal callback
                        \* has not run yet

wakeVars == <<caller, inflight>>

\* what the operations of one part leave alone
OutsideServer == <<valVars, raceVars, bridgeVars, accVars, subVars,
                    wakeVars>>
OutsideValue == <<srvVars, raceVars, bridgeVars, accVars, subVars,
                   wakeVars>>
OutsideRace == <<srvVars, valVars, bridgeVars, accVars, subVars,
                  wakeVars>>
OutsideBridge == <<srvVars, valVars, raceVars, accVars, subVars,
                    wakeVars>>
OutsideAccess == <<srvVars, valVars, raceVars, bridgeVars, subVars,
                    wakeVars>>
OutsideSubscribe == <<srvVars, valVars, raceVars, bridgeVars, accVars,
                      wakeVars>>
OutsideWake == <<srvVars, valVars, raceVars, bridgeVars, accVars, subVars>>

(***************************************************************************)
(* Sequence helpers.                                                       *)
(***************************************************************************)
Range(q) == {q[i] : i \in 1..Len(q)}

RECURSIVE Without(_, _)
Without(q, x) ==
  IF q = <<>> THEN <<>>
  ELSE IF Head(q) = x THEN Without(Tail(q), x)
       ELSE <<Head(q)>> \o Without(Tail(q), x)

IndexOf(q, x) == CHOOSE i \in 1..Len(q) : q[i] = x /\ \A j \in 1..(i - 1) : q[j] # x

EraseAt(q, i) == SubSeq(q, 1, i - 1) \o SubSeq(q, i + 1, Len(q))

(***************************************************************************)
(* The server-side state as one value, so that the nested calls of a       *)
(* handler (serviceChanged -> resetGATT -> Service::start) compose.        *)
(***************************************************************************)
\* What the last handler did on its way: the connected count its reset body
\* ran under (-1: the body did not run), the objects it freed while a peer
\* was connected, whether it used a freed object, whether it called abort(),
\* whether it told the peers that the attribute database changed.
EmptyObs ==
  [ret |-> TRUE, resetConn |-> -1, freedWhileConn |-> {},
   cleared |-> FALSE, ub |-> FALSE, abort |-> FALSE, started |-> 0,
   added |-> 0, changed |-> FALSE, handle |-> [kind |-> "none", id |-> 0, ret |-> 0],
   calls |-> <<>>,
   event |-> [type |-> "none", conn_handle |-> 0, status |-> 0, cb |-> FALSE]]

Cur ==
  [m_svcVec |-> m_svcVec, m_connectedPeersVec |-> m_connectedPeersVec,
   m_gattsStarted |-> m_gattsStarted, m_svcChanged |-> m_svcChanged,
   m_indWait |-> m_indWait, m_notifyChrVec |-> m_notifyChrVec,
   services |-> services, characteristics |-> characteristics,
   descriptors |-> descriptors, gatts |-> gatts, obs |-> obs]

\* The state a handler starts from: the observation is reset.
Begin == [Cur EXCEPT !.obs = EmptyObs]

Install(S) ==
  /\ m_svcVec' = S.m_svcVec
  /\ m_connectedPeersVec' = S.m_connectedPeersVec
  /\ m_gattsStarted' = S.m_gattsStarted
  /\ m_svcChanged' = S.m_svcChanged
  /\ m_indWait' = S.m_indWait
  /\ m_notifyChrVec' = S.m_notifyChrVec
  /\ services' = S.services
  /\ characteristics' = S.characteristics
  /\ descriptors' = S.descriptors
  /\ gatts' = S.gatts
  /\ obs' = S.obs

\* Server::getConnectedCount
getConnectedCount(S) == Len(S.m_connectedPeersVec)

(***************************************************************************)
(* Object lifetime.  A freed object keeps its last field values: what a    *)
(* later read through a dangling pointer finds when the memory has not     *)
(* been reused.  Every such read sets obs.ub.                              *)
(***************************************************************************)
Touch(S, kind, id) ==
  IF (kind = "chr" /\ S.characteristics[id].alloc = "freed")
     \/ (kind = "svc" /\ S.services[id].alloc = "freed")
     \/ (kind = "dsc" /\ S.descriptors[id].alloc = "freed")
  THEN [S EXCEPT !.obs.ub = TRUE] ELSE S

NoteFreed(S, kind, id) ==
  [S EXCEPT !.obs.freedWhileConn =
               IF getConnectedCount(S) > 0 THEN @ \cup {<<kind, id>>} ELSE @]

\* delete of a Descriptor
DeleteDsc(S, d) ==
  LET T == Touch(S, "dsc", d)
  IN  NoteFreed([T EXCEPT !.descriptors[d].alloc = "freed"], "dsc", d)

RECURSIVE DeleteDscs(_, _)
DeleteDscs(S, q) ==
  IF q = <<>> THEN S ELSE DeleteDscs(DeleteDsc(S, Head(q)), Tail(q))

\* delete of a Characteristic, which owns its descriptors
DeleteChr(S, c) ==
  LET T == Touch(S, "chr", c)
      U == DeleteDscs(T, T.characteristics[c].m_dscVec)
  IN  NoteFreed([U EXCEPT !.characteristics[c].alloc = "freed"], "chr", c)

RECURSIVE DeleteChrs(_, _)
DeleteChrs(S, q) ==
  IF q = <<>> THEN S ELSE DeleteChrs(DeleteChr(S, Head(q)), Tail(q))

\* Service::~Service: the compiled table and every characteristic of the
\* collection are deleted.
DeleteSvc(S, s) ==
  LET T == Touch(S, "svc", s)
      U == DeleteChrs(T, T.services[s].m_characteristics)
  IN  NoteFreed([U EXCEPT !.services[s].alloc = "freed"], "svc", s)

(***************************************************************************)
(* Service::start: the attribute-table compiler and the two-phase          *)
(* registration with the host.                                             *)
(***************************************************************************)
\* Service.cpp 133-146: PendingDelete characteristics are deleted and erased
RECURSIVE SweepChrs(_, _, _)
SweepChrs(S, s, q) ==
  IF q = <<>> THEN S
  ELSE LET c == Head(q)
           T == Touch(S, "chr", c)
       IN  IF T.characteristics[c].m_removed = NIMBLE_ATT_REMOVE_DELETE
           THEN SweepChrs([DeleteChr(T, c) EXCEPT
                             !.services[s].m_characteristics = Without(@, c)],
                          s, Tail(q))
           ELSE SweepChrs(T, s, Tail(q))

\* Service.cpp 165-178: PendingDelete descriptors are deleted and erased
RECURSIVE SweepDscs(_, _, _)
SweepDscs(S, c, q) ==
  IF q = <<>> THEN S
  ELSE LET d == Head(q)
           T == Touch(S, "dsc", d)
       IN  IF T.descriptors[d].m_removed = NIMBLE_ATT_REMOVE_DELETE
           THEN SweepDscs([DeleteDsc(T, d) EXCEPT
                             !.characteristics[c].m_dscVec = Without(@, d)],
                          c, Tail(q))
           ELSE SweepDscs(T, c, Tail(q))

\* a descriptor array that has an entry for every descriptor of the vector
ActiveDscs_All(S, c) == S.characteristics[c].m_dscVec

\* Service.cpp 186-201: the descriptor array of one characteristic
ActiveDscs(S, c) ==
  SelectSeq(S.characteristics[c].m_dscVec,
            LAMBDA d : S.descriptors[d].m_removed = 0)

\* Service.cpp 157-214: the characteristic array, in collection order
RECURSIVE BuildChrs(_, _)
BuildChrs(S, q) ==
  IF q = <<>> THEN [st |-> S, tab |-> <<>>]
  ELSE LET c == Head(q)
           T == Touch(S, "chr", c)
       IN  IF T.characteristics[c].m_removed > 0
           THEN BuildChrs(T, Tail(q))
           ELSE LET U == SweepDscs(T, c, T.characteristics[c].m_dscVec)
                    e == [chr |-> c,
                          flags |-> U.characteristics[c].m_properties,
                          dscs |-> Terminated(
                                     [i \in 1..Len(ActiveDscs(U, c)) |->
                                        [dsc |-> ActiveDscs(U, c)[i]]],
                                     DscSentinel)]
                    r == BuildChrs(U, Tail(q))
                IN  [st |-> r.st, tab |-> <<e>> \o r.tab]

\* a compile that consumes what it compiles: the first characteristic it
\* has put into the table is hidden afterwards
Compile_Consuming(S, s) ==
  LET T == SweepChrs(S, s, S.services[s].m_characteristics)
      r == BuildChrs(T, T.services[s].m_characteristics)
      U == [r.st EXCEPT !.services[s].m_pSvcDef =
                           [isNull |-> FALSE,
                            characteristics |->
                              Terminated(r.tab, ChrSentinel)]]
  IN  IF r.tab = <<>> THEN U
      ELSE [U EXCEPT !.characteristics[r.tab[1].chr].m_removed =
                        NIMBLE_ATT_REMOVE_HIDE]

\* Service.cpp 120-220
Compile(S, s) ==
  LET T == SweepChrs(S, s, S.services[s].m_characteristics)
      r == BuildChrs(T, T.services[s].m_characteristics)
  IN  [r.st EXCEPT !.services[s].m_pSvcDef =
                      [isNull |-> FALSE,
                            characteristics |->
                              Terminated(r.tab, ChrSentinel)]]

HostRcs == {"ok", "count_cfg", "add_svcs"}

\* a host call and the code it has returned, as the handler's record of
\* what it has asked of the host
HostCall(fn, failed) == [fn |-> fn, rc |-> IF failed THEN 1 ELSE 0]

\* a Service::start that goes on to the add pass whatever the sizing pass
\* has returned
ServiceStart_Unsized(S, s, rc) ==
  LET S1 == IF S.m_svcChanged /\ S.services[s].m_pSvcDef # Nullptr
            THEN [S EXCEPT !.services[s].m_pSvcDef = Nullptr] ELSE S
      S2 == IF S1.services[s].m_pSvcDef = Nullptr THEN Compile(S1, s) ELSE S1
      S3 == [S2 EXCEPT !.obs.calls =
               <<HostCall("ble_gatts_count_cfg", rc = "count_cfg"),
                 HostCall("ble_gatts_add_svcs", rc = "add_svcs")>>]
  IN  IF rc = "add_svcs" THEN [S3 EXCEPT !.obs.ret = FALSE]
      ELSE [S3 EXCEPT !.gatts.defs = Append(@, s), !.obs.ret = TRUE]

\* Service::start.  rc names the host call, if any, that returns non-zero.
ServiceStart(S, s, rc) ==
  LET S1 == IF S.m_svcChanged /\ S.services[s].m_pSvcDef # Nullptr
            THEN [S EXCEPT !.services[s].m_pSvcDef = Nullptr] ELSE S
      S2 == IF S1.services[s].m_pSvcDef = Nullptr THEN Compile(S1, s) ELSE S1
      S3 == [S2 EXCEPT !.obs.calls =
               <<HostCall("ble_gatts_count_cfg", rc = "count_cfg")>>]
      S4 == [S3 EXCEPT !.obs.calls =
               Append(@, HostCall("ble_gatts_add_svcs", rc = "add_svcs"))]
  IN  IF rc = "count_cfg" THEN [S3 EXCEPT !.obs.ret = FALSE]
      ELSE IF rc = "add_svcs" THEN [S4 EXCEPT !.obs.ret = FALSE]
      ELSE [S4 EXCEPT
              !.gatts.defs = Append(@, s),
              !.obs.ret = TRUE]

(***************************************************************************)
(* The host stack's attribute table.  ble_gatts_add_svcs queues a          *)
(* definition; ble_gatts_start registers the queued definitions and        *)
(* assigns the handles in order: one for the service declaration, two for  *)
(* each characteristic (declaration, value), one for the CCCD the host     *)
(* adds to a notify/indicate characteristic, one for each descriptor.  The *)
(* value handle is written through the val_handle pointer of the entry.    *)
(***************************************************************************)
EmptyGatts == [defs |-> <<>>, entries |-> <<>>]

HasCccd(flags) == "NOTIFY" \in flags \/ "INDICATE" \in flags

RECURSIVE RegisterChrs(_, _, _)
RegisterChrs(S, tab, next) ==
  IF tab = <<>> THEN [st |-> S, next |-> next]
  ELSE LET e == Head(tab)
           T == Touch(S, "chr", e.chr)
           U == [T EXCEPT !.characteristics[e.chr].m_handle = next + 1]
           n == next + 2 + (IF HasCccd(e.flags) THEN 1 ELSE 0)
                     + Len(UpToEnd(e.dscs, DscSentinel))
       IN  RegisterChrs(U, Tail(tab), n)

RECURSIVE RegisterSvcs(_, _, _)
RegisterSvcs(S, defs, next) ==
  IF defs = <<>> THEN S
  ELSE LET d == Head(defs)
           T == Touch(S, "svc", d)
           U == [T EXCEPT !.gatts.entries =
                            Append(@, [svc |-> d, uuid |-> T.services[d].m_uuid,
                                       handle |-> next])]
           r == RegisterChrs(U, UpToEnd(T.services[d].m_pSvcDef.characteristics,
                                        ChrSentinel),
                             next + 1)
       IN  RegisterSvcs(r.st, Tail(defs), r.next)

\* ble_gatts_start: the queued definitions are registered and the queue is
\* released
ble_gatts_start(S) ==
  [RegisterSvcs([S EXCEPT !.gatts.entries = <<>>], S.gatts.defs, 1)
     EXCEPT !.gatts.defs = <<>>]

\* ble_gatts_find_svc: the first registered service with the UUID
FoundSvc(S, uuid) ==
  {i \in 1..Len(S.gatts.entries) :
     /\ S.gatts.entries[i].uuid = uuid
     /\ \A j \in 1..(i - 1) : S.gatts.entries[j].uuid # uuid}

ble_gatts_find_svc(S, uuid) ==
  IF FoundSvc(S, uuid) = {} THEN NULL_HANDLE
  ELSE S.gatts.entries[CHOOSE i \in FoundSvc(S, uuid) : TRUE].handle

\* ble_gatts_svc_set_visibility succeeds on the handle of a registered service
IsSvcHandle(S, h) == \E i \in 1..Len(S.gatts.entries) : S.gatts.entries[i].handle = h

(***************************************************************************)
(* Server                                                                  *)
(***************************************************************************)
\* Server.cpp 210-216: the notify/indicate characteristics of one service
RECURSIVE CollectNotify(_, _)
CollectNotify(S, q) ==
  IF q = <<>> THEN S
  ELSE LET c == Head(q)
           T == Touch(S, "chr", c)
       IN  CollectNotify(
             IF HasCccd(T.characteristics[c].m_properties)
             THEN [T EXCEPT !.m_notifyChrVec = Append(@, c)] ELSE T,
             Tail(q))

\* Server.cpp 202-217
RECURSIVE StartLoop(_, _)
StartLoop(S, q) ==
  IF q = <<>> THEN S
  ELSE LET s == Head(q)
           h == ble_gatts_find_svc(S, S.services[s].m_uuid)
       IN  IF S.services[s].m_removed = 0 /\ h = NULL_HANDLE
           THEN [S EXCEPT !.obs.abort = TRUE]
           ELSE LET T == IF S.services[s].m_removed = 0
                         THEN [S EXCEPT !.services[s].m_handle = h] ELSE S
                IN  StartLoop(CollectNotify(T, T.services[s].m_characteristics),
                              Tail(q))

\* a Server::start that does not look at the started flag
ServerStart_Again(S, rc) ==
  IF rc # 0 THEN [S EXCEPT !.obs.abort = TRUE]
  ELSE LET T == StartLoop(ble_gatts_start(S), S.m_svcVec)
       IN  IF T.obs.abort THEN T ELSE [T EXCEPT !.m_gattsStarted = TRUE]

\* Server::start.  rc is what ble_gatts_start returns.
ServerStart(S, rc) ==
  IF S.m_gattsStarted THEN S
  ELSE IF rc # 0 THEN [S EXCEPT !.obs.abort = TRUE]
  ELSE LET T == StartLoop(ble_gatts_start(S), S.m_svcVec)
       IN  IF T.obs.abort THEN T ELSE [T EXCEPT !.m_gattsStarted = TRUE]

\* Server.cpp 657-670
RECURSIVE ResetLoop(_, _, _)
ResetLoop(S, q, rcs) ==
  IF q = <<>> THEN S
  ELSE LET s == Head(q)
       IN  IF S.services[s].m_removed > 0
           THEN IF S.services[s].m_removed = NIMBLE_ATT_REMOVE_DELETE
                THEN ResetLoop([DeleteSvc(S, s) EXCEPT !.m_svcVec = Without(@, s)],
                               Tail(q), rcs)
                ELSE ResetLoop(S, Tail(q), rcs)
           ELSE ResetLoop([ServiceStart(S, s, rcs[s]) EXCEPT !.obs.ret = TRUE,
                                                             !.obs.calls = <<>>],
                          Tail(q), rcs)

\* a reset that leaves the host's table as it is
ResetBody_KeepHost(S, rcs) ==
  LET S0 == [S EXCEPT !.obs.resetConn = getConnectedCount(S)]
      S1 == ResetLoop(S0, S0.m_svcVec, rcs)
  IN  [S1 EXCEPT !.m_svcChanged = FALSE, !.m_gattsStarted = FALSE]

\* Server.cpp 652-673: the reset itself
ResetBody(S, rcs) ==
  LET S0 == [S EXCEPT !.gatts = EmptyGatts,
                      !.obs.resetConn = getConnectedCount(S)]
      S1 == ResetLoop(S0, S0.m_svcVec, rcs)
  IN  [S1 EXCEPT !.m_svcChanged = FALSE, !.m_gattsStarted = FALSE]

resetGATT_Ungated(S, rcs) == ResetBody(S, rcs)

\* Server::resetGATT
resetGATT(S, rcs) ==
  IF getConnectedCount(S) > 0 THEN S ELSE ResetBody(S, rcs)

\* Server::serviceChanged
serviceChanged(S, rcs) ==
  IF S.m_gattsStarted
  THEN resetGATT([S EXCEPT !.m_svcChanged = TRUE, !.obs.changed = TRUE], rcs)
  ELSE S

\* Service::getHandle
ServiceGetHandle(S, s) ==
  IF S.services[s].m_handle = NULL_HANDLE
  THEN [S EXCEPT !.services[s].m_handle =
                    ble_gatts_find_svc(S, S.services[s].m_uuid)]
  ELSE S

NewService(u) ==
  [alloc |-> "live", m_uuid |-> u, m_handle |-> NULL_HANDLE,
   m_pSvcDef |-> Nullptr, m_removed |-> 0, m_characteristics |-> <<>>]

\* Server::createService
createService(S, s, u, rcs) ==
  serviceChanged([S EXCEPT !.services[s] = NewService(u),
                           !.m_svcVec = Append(@, s)], rcs)

\* Server::removeService
removeService(S, s, deleteSvc, rcs) ==
  IF S.services[s].m_removed > 0
  THEN IF deleteSvc /\ s \in Range(S.m_svcVec)
       THEN [DeleteSvc(S, s) EXCEPT !.m_svcVec = EraseAt(@, IndexOf(@, s))]
       ELSE S
  ELSE LET T == ServiceGetHandle(S, s)
       IN  IF ~IsSvcHandle(T, T.services[s].m_handle) THEN T
           ELSE serviceChanged(
                  [T EXCEPT !.services[s].m_removed =
                     IF deleteSvc THEN NIMBLE_ATT_REMOVE_DELETE
                     ELSE NIMBLE_ATT_REMOVE_HIDE], rcs)

\* Server::addService
addService(S, s, rcs) ==
  IF S.services[s].m_removed = 0
  THEN [S EXCEPT !.m_svcVec = Append(@, s)]
  ELSE serviceChanged([S EXCEPT !.services[s].m_removed = 0], rcs)

NewCharacteristic(props) ==
  [alloc |-> "live", m_handle |-> NULL_HANDLE, m_properties |-> props,
   m_removed |-> 0, m_dscVec |-> <<>>]

\* an addCharacteristic that does not look for the characteristic in the
\* collection
addCharacteristic_Append(S, s, c, rcs) ==
  serviceChanged([S EXCEPT !.services[s].m_characteristics = Append(@, c)],
                 rcs)

\* Descriptor::getHandle
DescriptorGetHandle(S, d) == S.descriptors[d].m_handle

\* Service::addCharacteristic
addCharacteristic(S, s, c, rcs) ==
  LET foundRemoved == /\ S.characteristics[c].m_removed > 0
                      /\ c \in Range(S.services[s].m_characteristics)
      T == IF foundRemoved
           THEN [S EXCEPT !.characteristics[c].m_removed = 0]
           ELSE [S EXCEPT !.services[s].m_characteristics = Append(@, c)]
  IN  serviceChanged(T, rcs)

\* Service::createCharacteristic
createCharacteristic(S, s, c, props, rcs) ==
  addCharacteristic([S EXCEPT !.characteristics[c] = NewCharacteristic(props)],
                    s, c, rcs)

\* Descriptor::Descriptor
NewDescriptor == [alloc |-> "live", m_handle |-> NULL_HANDLE, m_removed |-> 0]

\* Characteristic::createDescriptor: a structural change that appends a new
\* descriptor to the collection of the characteristic
createDescriptor(S, c, d, rcs) ==
  serviceChanged([S EXCEPT !.descriptors[d] = NewDescriptor,
                           !.characteristics[c].m_dscVec = Append(@, d)], rcs)

\* Characteristic::removeDescriptor of a descriptor not yet removed: a
\* structural change that tags it Hidden or PendingDelete
removeDescriptor(S, d, deleteDsc, rcs) ==
  IF S.descriptors[d].m_removed > 0 THEN S
  ELSE serviceChanged(
         [S EXCEPT !.descriptors[d].m_removed =
            IF deleteDsc THEN NIMBLE_ATT_REMOVE_DELETE
            ELSE NIMBLE_ATT_REMOVE_HIDE], rcs)

\* Service.cpp 317-323: erase(it) and then delete *it.  After the erase the
\* iterator refers to the successor of the erased element; when there is
\* none it is the end iterator, whose slot still holds the erased pointer.
EraseThenDelete(S, s, c) ==
  LET q == S.services[s].m_characteristics
      i == IndexOf(q, c)
      r == EraseAt(q, i)
      T == [S EXCEPT !.services[s].m_characteristics = r]
  IN  IF i <= Len(r) THEN DeleteChr(T, r[i])
      ELSE DeleteChr([T EXCEPT !.obs.ub = TRUE], c)

\* Service::removeCharacteristic
removeCharacteristic(S, s, c, deleteChr, rcs) ==
  IF S.characteristics[c].m_removed > 0
  THEN IF deleteChr /\ c \in Range(S.services[s].m_characteristics)
       THEN EraseThenDelete(S, s, c)
       ELSE S
  ELSE serviceChanged(
         [S EXCEPT !.characteristics[c].m_removed =
            IF deleteChr THEN NIMBLE_ATT_REMOVE_DELETE
            ELSE NIMBLE_ATT_REMOVE_HIDE], rcs)

\* a connect handler that does not look at the status of the event
onConnect_AnyStatus(S, h, status) ==
  [S EXCEPT !.m_connectedPeersVec = Append(@, h)]

\* Server.cpp 340-345: onConnect of the application is called when the
\* connection succeeded and ble_gap_conn_find finds its record
onConnectCalled(status, found) == status = 0 /\ found

\* Server.cpp 330-349: BLE_GAP_EVENT_CONNECT
onConnect(S, h, status) ==
  IF status # 0 THEN S
  ELSE [S EXCEPT !.m_connectedPeersVec = Append(@, h)]

\* Server.cpp 351-384: BLE_GAP_EVENT_DISCONNECT
onDisconnect(S, h, rcs) ==
  LET T == [S EXCEPT !.m_connectedPeersVec = Without(@, h)]
  IN  IF T.m_svcChanged THEN resetGATT(T, rcs) ELSE T

\* Server::setIndicateWait
setIndicateWait(S, h) ==
  [S EXCEPT !.obs.ret = \A i \in DOMAIN S.m_indWait : S.m_indWait[i] # h]

\* Server::clearIndicateWait
clearIndicateWait(S, h) ==
  LET hit == {i \in DOMAIN S.m_indWait : S.m_indWait[i] = h}
  IN  IF hit = {} THEN S
      ELSE [S EXCEPT !.m_indWait[CHOOSE i \in hit : \A j \in hit : i <= j] =
                        BLE_HS_CONN_HANDLE_NONE]

\* Server.cpp 429-433: the last characteristic of the list with the handle
RECURSIVE FindNotifyChr(_, _, _, _)
FindNotifyChr(S, q, h, found) ==
  IF q = <<>> THEN [st |-> S, chr |-> found]
  ELSE LET T == Touch(S, "chr", Head(q))
       IN  FindNotifyChr(T, Tail(q), h,
             IF T.characteristics[Head(q)].m_handle = h THEN Head(q) ELSE found)

\* Server.cpp 426-449: BLE_GAP_EVENT_NOTIFY_TX
onNotifyTx(S, attr, h, indication, status) ==
  LET r == FindNotifyChr(S, S.m_notifyChrVec, attr, 0)
  IN  IF r.chr = 0 THEN r.st
      ELSE IF indication /\ status = 0 THEN r.st
      ELSE IF indication
           THEN [clearIndicateWait(r.st, h) EXCEPT !.obs.cleared = TRUE]
           ELSE r.st

(***************************************************************************)
(* The actions of the server: calls of the application and events of the   *)
(* host, one handler at a time.                                            *)
(***************************************************************************)
NoService ==
  [alloc |-> "none", m_uuid |-> 0, m_handle |-> NULL_HANDLE,
   m_pSvcDef |-> Nullptr, m_removed |-> 0, m_characteristics |-> <<>>]

NoCharacteristic ==
  [alloc |-> "none", m_handle |-> NULL_HANDLE, m_properties |-> {},
   m_removed |-> 0, m_dscVec |-> <<>>]

NoDescriptor == [alloc |-> "none", m_handle |-> NULL_HANDLE, m_removed |-> 0]

\* Server::Server, and no attribute object yet
Fresh ==
  [m_svcVec |-> <<>>, m_connectedPeersVec |-> <<>>,
   m_gattsStarted |-> FALSE, m_svcChanged |-> FALSE,
   m_indWait |-> [i \in 1..MaxConn |-> BLE_HS_CONN_HANDLE_NONE],
   m_notifyChrVec |-> <<>>,
   services |-> [s \in SvcIds |-> NoService],
   characteristics |-> [c \in ChrIds |-> NoCharacteristic],
   descriptors |-> [d \in DscIds |-> NoDescriptor],
   gatts |-> EmptyGatts, obs |-> EmptyObs]

\* a terminated program has no objects
Halted == Fresh

\* Freed memory that no pointer of the server or of the host refers to any
\* more is not part of the state.
SvcRefs(S) == Range(S.m_svcVec) \cup Range(S.gatts.defs)

ReleaseSvcs(S) ==
  [S EXCEPT !.services =
     [s \in SvcIds |->
        IF S.services[s].alloc = "freed" /\ s \notin SvcRefs(S)
        THEN [NoService EXCEPT !.alloc = "freed"] ELSE S.services[s]]]

ChrRefs(S) ==
  Range(S.m_notifyChrVec)
  \cup UNION {Range(S.services[s].m_characteristics) : s \in SvcIds}
  \cup UNION {{e.chr : e \in Range(S.services[s].m_pSvcDef.characteristics)} :
               s \in SvcIds}

ReleaseChrs(S) ==
  [S EXCEPT !.characteristics =
     [c \in ChrIds |->
        IF S.characteristics[c].alloc = "freed" /\ c \notin ChrRefs(S)
        THEN [NoCharacteristic EXCEPT !.alloc = "freed"]
        ELSE S.characteristics[c]]]

Release(S) == ReleaseChrs(ReleaseSvcs(S))

Outcomes(S) ==
  IF S.obs.abort THEN {"crash"}
  ELSE IF S.obs.ub THEN {"stale", "crash"}
  ELSE {"ok"}

\* A handler's result becomes the state; abort() and (as one outcome of
\* using a freed object) a crash end the program.
Finish(S) ==
  \E o \in Outcomes(S) :
    /\ app' = app
    /\ UNCHANGED OutsideServer
    /\ IF o = "crash"
       THEN /\ crashed' = TRUE
            /\ Install([Halted EXCEPT !.obs = S.obs])
       ELSE /\ crashed' = FALSE
            /\ Install(Release(S))

\* The applications considered: one builds MaxSvc services without
\* characteristics, the other one service with MaxChr characteristics and
\* MaxDsc descriptors.
Applications ==
  {[services |-> MaxSvc, characteristics |-> 0, descriptors |-> 0],
   [services |-> 1, characteristics |-> MaxChr, descriptors |-> MaxDsc]}

FreeSvcIds == {s \in SvcIds : services[s].alloc = "none"}
FreeChrIds == {c \in ChrIds : characteristics[c].alloc = "none"}
FreeDscIds == {d \in DscIds : descriptors[d].alloc = "none"}
NextFree(ids) == CHOOSE i \in ids : \A j \in ids : i <= j

\* the services and characteristics the application holds a pointer to
AppSvcs == {s \in Range(m_svcVec) : services[s].alloc = "live"}
AppChrs(s) ==
  {c \in Range(services[s].m_characteristics) :
     characteristics[c].alloc = "live"}

\* what the host returns to each Service::start of a reset; only the
\* services a reset would start matter
RcMaps ==
  {f \in [SvcIds -> {"ok", "add_svcs"}] :
     \A s \in SvcIds :
       (~m_gattsStarted \/ s \notin Range(m_svcVec)
          \/ services[s].m_removed = NIMBLE_ATT_REMOVE_DELETE) => f[s] = "ok"}

\* UUIDs are named in order of first use
UsedUuids == {services[s].m_uuid : s \in SvcIds} \ {0}
FreshUuids == {u \in Uuids : \A v \in Uuids : v < u => v \in UsedUuids}
NotifyCapable ==
  Cardinality({c \in ChrIds : characteristics[c].alloc # "none"
                              /\ HasCccd(characteristics[c].m_properties)})
\* the application's characteristics: the first it creates indicates, the
\* others are read-only
ChrProps(c) == IF c = 1 THEN {"READ", "INDICATE"} ELSE {"READ"}

CreateService ==
  /\ ~crashed /\ Cardinality(SvcIds \ FreeSvcIds) < app.services
  /\ \E u \in FreshUuids, rcs \in RcMaps :
       Finish(createService(Begin,
                            NextFree(FreeSvcIds), u, rcs))
  /\ UNCHANGED indAdmitted

RemoveService ==
  /\ ~crashed
  /\ \E s \in AppSvcs, del \in BOOLEAN, rcs \in RcMaps :
       Finish(removeService(Begin, s, del, rcs))
  /\ UNCHANGED indAdmitted

AddService ==
  /\ ~crashed
  /\ \E s \in AppSvcs, rcs \in RcMaps :
       /\ services[s].m_removed > 0
       /\ Finish(addService(Begin, s, rcs))
  /\ UNCHANGED indAdmitted

\* the application constructs a Service itself and hands it to addService
AddNewService ==
  /\ ~crashed /\ Cardinality(SvcIds \ FreeSvcIds) < app.services
  /\ \E u \in FreshUuids, rcs \in RcMaps :
       LET s == NextFree(FreeSvcIds)
       IN  Finish(addService([Begin EXCEPT !.services[s] = NewService(u)],
                             s, rcs))
  /\ UNCHANGED indAdmitted

CreateCharacteristic ==
  /\ ~crashed /\ Cardinality(ChrIds \ FreeChrIds) < app.characteristics
  /\ \E s \in AppSvcs, rcs \in RcMaps :
       Finish(createCharacteristic(
                Begin,
                s, NextFree(FreeChrIds), ChrProps(NextFree(FreeChrIds)), rcs))
  /\ UNCHANGED indAdmitted

AddCharacteristic ==
  /\ ~crashed
  /\ \E s \in AppSvcs, rcs \in RcMaps :
       \E c \in AppChrs(s) :
         /\ characteristics[c].m_removed > 0
         /\ Finish([addCharacteristic(Begin, s, c, rcs)
                      EXCEPT !.obs.added = c])
  /\ UNCHANGED indAdmitted

RemoveCharacteristic ==
  /\ ~crashed
  /\ \E s \in AppSvcs, del \in BOOLEAN, rcs \in RcMaps :
       \E c \in AppChrs(s) :
         Finish(removeCharacteristic(Begin,
                                     s, c, del, rcs))
  /\ UNCHANGED indAdmitted

\* the descriptors of a characteristic the application holds a pointer to
AppDscs(c) ==
  {d \in Range(characteristics[c].m_dscVec) : descriptors[d].alloc = "live"}

CreateDescriptor ==
  /\ ~crashed /\ Cardinality(DscIds \ FreeDscIds) < app.descriptors
  /\ \E s \in AppSvcs, rcs \in RcMaps :
       \E c \in AppChrs(s) :
         Finish(createDescriptor(Begin, c, NextFree(FreeDscIds), rcs))
  /\ UNCHANGED indAdmitted

RemoveDescriptor ==
  /\ ~crashed
  /\ \E s \in AppSvcs, del \in BOOLEAN, rcs \in RcMaps :
       \E c \in AppChrs(s) :
         \E d \in AppDscs(c) :
           /\ descriptors[d].m_removed = 0
           /\ Finish(removeDescriptor(Begin, d, del, rcs))
  /\ UNCHANGED indAdmitted

StartService ==
  /\ ~crashed
  /\ \E s \in AppSvcs \ Range(gatts.defs), rc \in HostRcs :
       Finish([ServiceStart(Begin, s, rc) EXCEPT !.obs.started = s])
  /\ UNCHANGED indAdmitted

\* the application calls Service::start on the service it has just started
RestartService ==
  /\ ~crashed /\ obs.started # 0 /\ Len(gatts.defs) < MaxSvc
  /\ \E rc \in HostRcs :
       Finish([ServiceStart(Begin, obs.started, rc)
                 EXCEPT !.obs.started = obs.started])
  /\ UNCHANGED indAdmitted

StartServer ==
  /\ ~crashed /\ Len(m_notifyChrVec) + NotifyCapable <= MaxNotify
  /\ \E rc \in {0, 1} :
       Finish(ServerStart(Begin, rc))
  /\ UNCHANGED indAdmitted

Connect ==
  /\ ~crashed
  /\ \E h \in ConnHandles \ Range(m_connectedPeersVec), status \in {0, 1} :
       Finish(onConnect(Begin, h, status))
  /\ UNCHANGED indAdmitted

Disconnect ==
  /\ ~crashed
  /\ \E h \in Range(m_connectedPeersVec), rcs \in RcMaps :
       Finish(onDisconnect(Begin, h, rcs))
  /\ UNCHANGED indAdmitted

\* the connect and disconnect events of the host, with what the handler has
\* been given and whether it has called the application
ConnectEvent ==
  /\ ~crashed
  /\ \E h \in ConnHandles \ Range(m_connectedPeersVec), status \in {0, 1},
        found \in BOOLEAN :
       Finish([onConnect(Begin, h, status) EXCEPT !.obs.event =
                 [type |-> "connect", conn_handle |-> h, status |-> status,
                  cb |-> onConnectCalled(status, found)]])
  /\ UNCHANGED indAdmitted

DisconnectEvent ==
  /\ ~crashed
  /\ \E h \in Range(m_connectedPeersVec), rcs \in RcMaps :
       Finish([onDisconnect(Begin, h, rcs) EXCEPT !.obs.event =
                 [type |-> "disconnect", conn_handle |-> h, status |-> 0,
                  cb |-> TRUE]])
  /\ UNCHANGED indAdmitted

\* an indication is about to be sent to a connected peer
SetIndicateWait ==
  /\ ~crashed
  /\ \E h \in Range(m_connectedPeersVec) :
       LET R == setIndicateWait(Begin, h)
       IN  /\ indAdmitted[h] < MaxAdmit
           /\ Finish(R)
           /\ indAdmitted' = IF R.obs.ret
                              THEN [indAdmitted EXCEPT ![h] = @ + 1]
                              ELSE indAdmitted

NotifyHandles == {characteristics[c].m_handle : c \in Range(m_notifyChrVec)}

NotifyTx ==
  /\ ~crashed
  /\ \E h \in Range(m_connectedPeersVec), attr \in NotifyHandles,
        indication \in BOOLEAN, status \in {0, BLE_HS_EDONE} :
       LET R == onNotifyTx(Begin, attr, h, indication, status)
       IN  /\ Finish(R)
           /\ indAdmitted' = IF R.obs.cleared /\ ~crashed'
                              THEN [indAdmitted EXCEPT ![h] = 0]
                              ELSE indAdmitted

(***************************************************************************)
(* AttributeValue (AttributeValue.hpp).  A buffer is either null or holds  *)
(* the bytes data() points at; the allocation is always one byte larger    *)
(* than the capacity recorded with it.  calloc and realloc succeed.        *)
(***************************************************************************)
Min(x, y) == IF x < y THEN x ELSE y

ValNames == {"a", "b"}
Bytes == 0..MaxByte
Data == UNION {[1..n -> Bytes] : n \in 0..MaxData}
InitLens == {1, MaxData, MaxData + 1}
MaxLens == {MaxData - 1, MaxData, BLE_ATT_ATTR_MAX_LEN + MaxData}

NoBuffer == [null |-> TRUE, bytes |-> <<>>]

\* the member initialisers of the class: no buffer, all lengths 0
Unmade ==
  [made |-> FALSE, m_attr_value |-> NoBuffer, m_attr_max_len |-> 0,
   m_attr_len |-> 0, m_capacity |-> 0]

\* AttributeValue(uint16_t init_len, uint16_t max_len)
AttributeValueInit(init_len, max_len) ==
  IF ~(init_len > 1) \/ ~(init_len < BLE_ATT_ATTR_MAX_LEN)
  THEN [v |-> Unmade, ret |-> FALSE, abort |-> TRUE, ub |-> FALSE]
  ELSE [v |-> [made |-> TRUE,
               m_attr_value |-> [null |-> FALSE, bytes |-> <<>>],
               m_attr_max_len |-> Min(BLE_ATT_ATTR_MAX_LEN, max_len),
               m_attr_len |-> 0,
               m_capacity |-> init_len],
        ret |-> TRUE, abort |-> FALSE, ub |-> FALSE]

\* AttributeValue(const uint8_t *value, uint16_t len, uint16_t max_len)
AttributeValueFrom(value, max_len) ==
  LET r == AttributeValueInit(Len(value), max_len)
  IN  IF r.abort THEN r
      ELSE [r EXCEPT !.v.m_attr_value.bytes = value,
                     !.v.m_attr_len = Len(value)]

\* realloc(m_attr_value, n): the bytes are kept; realloc(nullptr, n) is a
\* malloc, whose bytes are whatever the memory held (junk)
Realloc(buf, junk) ==
  IF buf.null THEN [null |-> FALSE, bytes |-> junk] ELSE buf

\* AttributeValue::setValue.  assert(res) ends the program when the object
\* has no buffer and none is allocated.
setValue(v, value) ==
  IF Len(value) > v.m_attr_max_len
  THEN [v |-> v, ret |-> FALSE, abort |-> FALSE, ub |-> FALSE]
  ELSE LET grow == Len(value) > v.m_capacity
           res == IF grow THEN Realloc(v.m_attr_value, <<>>) ELSE v.m_attr_value
           w == IF grow THEN [v EXCEPT !.m_capacity = Len(value)] ELSE v
       IN  IF res.null
           THEN [v |-> w, ret |-> FALSE, abort |-> TRUE, ub |-> FALSE]
           ELSE [v |-> [w EXCEPT !.m_attr_value = [null |-> FALSE, bytes |-> value],
                                 !.m_attr_len = Len(value)],
                 ret |-> TRUE, abort |-> FALSE, ub |-> FALSE]

\* AttributeValue::append
append(v, value, junk) ==
  IF Len(value) < 1 THEN [v |-> v, ret |-> TRUE, abort |-> FALSE, ub |-> FALSE]
  ELSE IF v.m_attr_len + Len(value) > v.m_attr_max_len
  THEN [v |-> v, ret |-> TRUE, abort |-> FALSE, ub |-> FALSE]
  ELSE LET new_len == v.m_attr_len + Len(value)
           grow == new_len > v.m_capacity
           res == IF grow THEN Realloc(v.m_attr_value, junk) ELSE v.m_attr_value
           w == IF grow THEN [v EXCEPT !.m_capacity = new_len] ELSE v
       IN  IF res.null
           THEN [v |-> w, ret |-> FALSE, abort |-> TRUE, ub |-> FALSE]
           ELSE [v |-> [w EXCEPT !.m_attr_value =
                                    [null |-> FALSE, bytes |-> res.bytes \o value],
                                 !.m_attr_len = new_len],
                 ret |-> TRUE, abort |-> FALSE,
                 ub |-> v.m_attr_value.null /\ v.m_attr_len > 0]

\* AttributeValue::deepCopy.  Copying from a source without a buffer reads
\* m_attr_len + 1 bytes through a null pointer: the result is junk.
deepCopy(v, source, junk) ==
  [v |-> [made |-> TRUE,
          m_attr_value |->
            [null |-> FALSE,
             bytes |-> IF source.m_attr_value.null THEN junk
                       ELSE source.m_attr_value.bytes],
          m_attr_max_len |-> source.m_attr_max_len,
          m_attr_len |-> source.m_attr_len,
          m_capacity |-> source.m_capacity],
   ret |-> TRUE, abort |-> FALSE, ub |-> source.m_attr_value.null]

\* operator=(AttributeValue &&source): what becomes of *this and of source
moveAssign(v, source) ==
  [v |-> [made |-> TRUE,
          m_attr_value |-> source.m_attr_value,
          m_attr_max_len |-> source.m_attr_max_len,
          m_attr_len |-> source.m_attr_len,
          m_capacity |-> source.m_capacity],
   source |-> [source EXCEPT !.m_attr_value = NoBuffer]]

(***************************************************************************)
(* The operations of a program on its AttributeValue objects.  call holds  *)
(* the last operation, with the bytes given to a setValue, and its result; *)
(* a failed assert ends the program.                                       *)
(***************************************************************************)
NoCall ==
  [op |-> "none", who |-> "a", data |-> <<>>,
   ret |-> TRUE, abort |-> FALSE, ub |-> FALSE]

\* reading through a null pointer may also end the program
Fates(r) == IF r.ub THEN {"junk", "crash"} ELSE {"ok"}

Called(op, n, d, r) ==
  \E fate \in Fates(r) :
    LET end == r.abort \/ fate = "crash"
    IN  /\ call' = [op |-> op, who |-> n, data |-> d,
                    ret |-> r.ret, abort |-> end, ub |-> r.ub]
        /\ values' = IF end THEN [m \in ValNames |-> Unmade]
                     ELSE [values EXCEPT ![n] = r.v]

\* the bytes a fresh allocation may hold where the code reads m_attr_len of
\* them without having written them
Junk(v) ==
  IF v.m_attr_value.null THEN {d \in Data : Len(d) = v.m_attr_len}
  ELSE {<<>>}

ValConstruct ==
  /\ ~call.abort
  /\ \E n \in ValNames, init_len \in InitLens, max_len \in MaxLens :
       /\ ~values[n].made
       /\ Called("construct", n, <<>>, AttributeValueInit(init_len, max_len))
  /\ UNCHANGED OutsideValue

ValConstructFrom ==
  /\ ~call.abort
  /\ \E n \in ValNames, value \in Data, max_len \in MaxLens :
       /\ ~values[n].made
       /\ Called("construct", n, <<>>, AttributeValueFrom(value, max_len))
  /\ UNCHANGED OutsideValue

ValSetValue ==
  /\ ~call.abort
  /\ \E n \in ValNames, value \in Data :
       /\ values[n].made
       /\ Called("setValue", n, value, setValue(values[n], value))
  /\ UNCHANGED OutsideValue

ValAppend ==
  /\ ~call.abort
  /\ \E n \in ValNames, value \in Data :
       /\ values[n].made
       /\ values[n].m_attr_len + Len(value) <= values[n].m_attr_max_len
            => values[n].m_attr_len + Len(value) <= MaxData
       /\ \E junk \in Junk(values[n]) :
            Called("append", n, <<>>, append(values[n], value, junk))
  /\ UNCHANGED OutsideValue

ValCopyAssign ==
  /\ ~call.abort
  /\ \E n \in ValNames, m \in ValNames :
       /\ n # m /\ values[m].made
       /\ \E junk \in Junk(values[m]) :
            Called("copy", n, <<>>, deepCopy(values[n], values[m], junk))
  /\ UNCHANGED OutsideValue

ValMoveAssign ==
  /\ ~call.abort
  /\ \E n \in ValNames, m \in ValNames :
       /\ n # m /\ values[m].made
       /\ call' = [op |-> "move", who |-> n, data |-> <<>>,
                   ret |-> TRUE, abort |-> FALSE, ub |-> FALSE]
       /\ values' = [values EXCEPT
                       ![n] = moveAssign(values[n], values[m]).v,
                       ![m] = moveAssign(values[n], values[m]).source]
  /\ UNCHANGED OutsideValue

InitValue ==
  /\ values = [n \in ValNames |-> Unmade]
  /\ call = NoCall

(***************************************************************************)
(* One AttributeValue shared by two tasks: the application task writes it  *)
(* with setValue / append, the host task reads it in the read access of    *)
(* Descriptor::handleGapEvent.  A step is what a task does between two     *)
(* scheduling points: the code before the critical section of setValue /   *)
(* append (the length checks, realloc, m_capacity), the critical section   *)
(* itself, the critical section of the read access.  realloc either        *)
(* extends the block in place or moves it: it then returns another block   *)
(* holding the same bytes and releases the old one.                        *)
(***************************************************************************)
BlockIds == 1..MaxBlock
RaceData == UNION {[1..n -> Bytes] : n \in 0..(MaxData + 1)}
RaceMaxLen == MaxData + 2

Idle == [pc |-> "idle", op |-> "none", value |-> <<>>, res |-> 1,
         new_len |-> 0, old |-> <<>>]

NotRead == [done |-> FALSE, freed |-> FALSE, bytes |-> <<>>,
            old |-> <<>>, new |-> <<>>]

\* the value data() and size() describe
Stored == SubSeq(blocks[m_value.m_attr_value].bytes, 1, m_value.m_attr_len)

OtherBlock(b) == CHOOSE c \in BlockIds : c # b /\ ~blocks[c].live

\* AttributeValue.hpp 368-373 and 402-407: res, and the heap after realloc
ReallocRace(how) ==
  IF how = "moved"
  THEN [res |-> OtherBlock(m_value.m_attr_value),
        heap |-> [blocks EXCEPT
                    ![OtherBlock(m_value.m_attr_value)] =
                       [live |-> TRUE, bytes |-> blocks[m_value.m_attr_value].bytes],
                    ![m_value.m_attr_value].live = FALSE]]
  ELSE [res |-> m_value.m_attr_value, heap |-> blocks]

\* setValue up to its critical section
WriterSetValue ==
  /\ writer.pc = "idle"
  /\ \E value \in RaceData :
       IF Len(value) > m_value.m_attr_max_len
       THEN UNCHANGED <<m_value, blocks, writer>>
       ELSE IF Len(value) > m_value.m_capacity
       THEN \E how \in {"inplace", "moved"} :
              /\ blocks' = ReallocRace(how).heap
              /\ m_value' = [m_value EXCEPT !.m_capacity = Len(value)]
              /\ writer' = [pc |-> "critical", op |-> "setValue",
                            value |-> value, res |-> ReallocRace(how).res,
                            new_len |-> Len(value), old |-> Stored]
       ELSE /\ writer' = [pc |-> "critical", op |-> "setValue",
                          value |-> value, res |-> m_value.m_attr_value,
                          new_len |-> Len(value), old |-> Stored]
            /\ UNCHANGED <<m_value, blocks>>
  /\ reader' = NotRead
  /\ UNCHANGED OutsideRace

\* append up to its critical section
WriterAppend ==
  /\ writer.pc = "idle"
  /\ \E value \in RaceData :
       IF Len(value) < 1 \/ m_value.m_attr_len + Len(value) > m_value.m_attr_max_len
       THEN UNCHANGED <<m_value, blocks, writer>>
       ELSE IF m_value.m_attr_len + Len(value) > m_value.m_capacity
       THEN \E how \in {"inplace", "moved"} :
              /\ blocks' = ReallocRace(how).heap
              /\ m_value' = [m_value EXCEPT
                               !.m_capacity = m_value.m_attr_len + Len(value)]
              /\ writer' = [pc |-> "critical", op |-> "append",
                            value |-> value, res |-> ReallocRace(how).res,
                            new_len |-> m_value.m_attr_len + Len(value),
                            old |-> Stored]
       ELSE /\ writer' = [pc |-> "critical", op |-> "append",
                          value |-> value, res |-> m_value.m_attr_value,
                          new_len |-> m_value.m_attr_len + Len(value),
                          old |-> Stored]
            /\ UNCHANGED <<m_value, blocks>>
  /\ reader' = NotRead
  /\ UNCHANGED OutsideRace

\* the value the write in progress is about to store
Written ==
  IF writer.op = "append" THEN writer.old \o writer.value ELSE writer.value

\* AttributeValue.hpp 381-387 and 415-421: the critical section of the write
WriterCritical ==
  /\ writer.pc = "critical"
  /\ m_value' = [m_value EXCEPT !.m_attr_value = writer.res,
                                !.m_attr_len = writer.new_len]
  /\ blocks' = [blocks EXCEPT ![writer.res].bytes =
                  IF writer.op = "append"
                  THEN SubSeq(@, 1, m_value.m_attr_len) \o writer.value
                  ELSE writer.value]
  /\ writer' = Idle
  /\ reader' = NotRead
  /\ UNCHANGED OutsideRace

\* Descriptor.cpp 170-172: the critical section of the read access copies
\* size() bytes from data()
ReadAccess ==
  /\ reader' = [done |-> TRUE,
                freed |-> ~blocks[m_value.m_attr_value].live,
                bytes |-> Stored,
                old |-> IF writer.pc = "idle" THEN Stored ELSE writer.old,
                new |-> IF writer.pc = "idle" THEN Stored ELSE Written]
  /\ UNCHANGED <<m_value, blocks, writer>>
  /\ UNCHANGED OutsideRace

\* Descriptor::Descriptor: m_value(min(INIT_LENGTH, max_len), max_len)
InitRace ==
  /\ m_value = [m_attr_value |-> 1, m_attr_max_len |-> RaceMaxLen,
                m_attr_len |-> 0, m_capacity |-> Min(MaxData, RaceMaxLen)]
  /\ blocks = [b \in BlockIds |-> [live |-> b = 1, bytes |-> <<>>]]
  /\ writer = Idle
  /\ reader = NotRead

(***************************************************************************)
(* The client-side bridge: RemoteDescriptor::readValue / writeValue and    *)
(* the characteristic discovery of RemoteService.  One application task    *)
(* calls an operation and is suspended in it (ulTaskNotifyTake) until a    *)
(* completion callback on the host task resumes it.  A step is what runs   *)
(* between two suspensions: the call up to its first wait or its return,   *)
(* and each callback together with the code the resumed task runs up to    *)
(* its next wait or its return.  What the host stack and the peer answer   *)
(* is an input of the step.                                                *)
(***************************************************************************)
Uuid16(v) == [type |-> 16, value |-> v, base |-> TRUE]
Uuid128(v, base) == [type |-> 128, value |-> v, base |-> base]
NoUuid == [type |-> 0, value |-> 0, base |-> FALSE]

\* UUID::to128: a 16 bit value is placed in the base UUID
to128(u) == IF u.type = 128 THEN u ELSE Uuid128(u.value, TRUE)

\* UUID::to16: only a 128 bit UUID built on the base UUID converts
to16(u) == IF u.type = 128 /\ u.base THEN Uuid16(u.value) ELSE u

\* UUID::operator==: different forms are equal when the 128 bit one is the
\* base UUID carrying the short value
UuidEquals(a, b) ==
  IF a.type # b.type THEN a.base /\ b.base /\ a.value = b.value ELSE a = b

\* the characteristics the peer exposes in the service, and the UUIDs the
\* application asks for
PeerChrs == <<[uuid |-> Uuid16(1), def_handle |-> 2],
              [uuid |-> Uuid128(2, TRUE), def_handle |-> 4]>>
AskedUuids == {Uuid16(1), Uuid128(1, TRUE), Uuid16(2), Uuid128(2, FALSE)}
RemoteSvc == [m_startHandle |-> 1, m_endHandle |-> 5]

Mtus == (MaxMtu - 1)..MaxMtu
Insufficient == {"INSUFFICIENT_AUTHEN", "INSUFFICIENT_AUTHOR", "INSUFFICIENT_ENC"}
Statuses == {"0", "BLE_HS_EDONE", "ATTR_NOT_LONG", "OTHER"} \cup Insufficient

Event(ev, kind, length) == [ev |-> ev, kind |-> kind, length |-> length]
Requests(lg) == SelectSeq(lg, LAMBDA e : e.ev = "request")

NoTask == [pc |-> "idle", op |-> "none", result |-> "none", online |-> TRUE,
           rc |-> "0", retryCount |-> 0, asked |-> 0, length |-> 0, mtu |-> 0,
           value |-> <<>>, uuid |-> NoUuid, filter |-> NoUuid,
           second |-> FALSE, prev_size |-> 0, cursor |-> 0, found |-> 0]

\* an operation that would start with two retries in hand
Entered_TwoRetries(op) ==
  [NoTask EXCEPT !.op = op, !.online = m_connEstablished, !.retryCount = 2]

\* the locals at the entry of an operation; RemoteDescriptor.cpp 95-96 and
\* 257-258: rc = 0, retryCount = 1
Entered(op) ==
  [NoTask EXCEPT !.op = op, !.online = m_connEstablished, !.retryCount = 1]

Returned(t, result) == [t EXCEPT !.pc = "idle", !.result = result]

\* RemoteDescriptor.cpp 101-108: submit the long read; a refusal returns
ReadSubmit(t, lg, accepted) ==
  [task |-> IF accepted THEN [t EXCEPT !.pc = "waiting"]
            ELSE Returned([t EXCEPT !.rc = "OTHER"], "failure"),
   log |-> Append(lg, Event("request", "read_long", 0))]

\* what readValue hands to its caller: on every path, error or not, the
\* AttributeValue the fragments were appended to; RemoteDescriptor.cpp 92,
\* 107, 134 and 139
ReadReturn(t) == t.value

\* a reader that takes "attribute not long" for an error
readValueSwitch_NotLongFails(t, lg, secured, accepted) ==
  IF t.rc \in {"0", "BLE_HS_EDONE"}
  THEN [task |-> Returned([t EXCEPT !.rc = "0"], "success"), log |-> lg]
  ELSE IF t.rc \in Insufficient /\ t.retryCount # 0 /\ secured
  THEN ReadSubmit([t EXCEPT !.retryCount = @ - 1],
                  Append(lg, Event("secure", "ok", 0)), accepted)
  ELSE [task |-> Returned(t, "failure"), log |-> lg]

\* RemoteDescriptor.cpp 115-139: the resumed reader
readValueSwitch(t, lg, secured, accepted) ==
  IF t.rc \in {"0", "BLE_HS_EDONE", "ATTR_NOT_LONG"}
  THEN [task |-> Returned([t EXCEPT !.rc = "0"], "success"), log |-> lg]
  ELSE IF t.rc \in Insufficient /\ t.retryCount # 0
  THEN IF secured
       THEN IF t.retryCount # 0
            THEN ReadSubmit([t EXCEPT !.retryCount = @ - 1],
                            Append(lg, Event("secure", "ok", 0)), accepted)
            ELSE [task |-> Returned([t EXCEPT !.retryCount = @ - 1], "failure"),
                  log |-> Append(lg, Event("secure", "ok", 0))]
       ELSE [task |-> Returned(t, "failure"),
             log |-> Append(lg, Event("secure", "failed", 0))]
  ELSE [task |-> Returned(t, "failure"), log |-> lg]

\* RemoteDescriptor.cpp 272-288: long or single-frame write; a refusal
\* returns false
WriteSubmit(t, lg, accepted) ==
  [task |-> IF accepted THEN [t EXCEPT !.pc = "waiting"]
            ELSE Returned([t EXCEPT !.rc = "OTHER"], "failure"),
   log |-> Append(lg, Event("request",
                            IF t.length > t.mtu THEN "write_long" ELSE "write_flat",
                            t.length))]

\* a fallback that would keep the length of the payload
NotLong_Untruncated(t) == [t EXCEPT !.retryCount = @ + 1]

\* RemoteDescriptor.cpp 297-306: the peer does not take long writes
NotLong(t) == [t EXCEPT !.retryCount = @ + 1, !.length = t.mtu]

\* RemoteDescriptor.cpp 317: while (rc != 0 && retryCount--)
WriteAgain(t, lg, accepted) ==
  IF t.retryCount # 0
  THEN WriteSubmit([t EXCEPT !.retryCount = @ - 1], lg, accepted)
  ELSE [task |-> Returned([t EXCEPT !.retryCount = @ - 1], "failure"),
        log |-> lg]

\* RemoteDescriptor.cpp 295-320: the resumed writer
writeValueSwitch(t, lg, secured, accepted) ==
  IF t.rc \in {"0", "BLE_HS_EDONE"}
  THEN [task |-> Returned([t EXCEPT !.rc = "0"], "success"), log |-> lg]
  ELSE IF t.rc = "ATTR_NOT_LONG"
  THEN WriteAgain(NotLong(t), lg, accepted)
  ELSE IF t.rc \in Insufficient /\ t.retryCount # 0
  THEN IF secured
       THEN WriteAgain(t, Append(lg, Event("secure", "ok", 0)), accepted)
       ELSE [task |-> Returned(t, "failure"),
             log |-> Append(lg, Event("secure", "failed", 0))]
  ELSE [task |-> Returned(t, "failure"), log |-> lg]

\* what the host answers to a submission, what Client::secureConnection
\* returns: without a connection the host refuses and nothing is secured
SubmitAnswers == IF m_connEstablished THEN BOOLEAN ELSE {FALSE}
SecureAnswers == IF m_connEstablished THEN BOOLEAN ELSE {FALSE}

\* RemoteDescriptor::readValue up to its first wait
ReadValue ==
  /\ task.pc = "idle"
  /\ IF ~m_connEstablished
     THEN /\ task' = Returned(Entered("readValue"), "failure")
          /\ log' = <<>>
     ELSE \E accepted \in SubmitAnswers :
            /\ task' = ReadSubmit(Entered("readValue"), <<>>, accepted).task
            /\ log' = ReadSubmit(Entered("readValue"), <<>>, accepted).log
  /\ UNCHANGED <<m_connEstablished, m_characteristicVector>>
  /\ UNCHANGED OutsideBridge

\* the fragments the peer's answer to a long read arrives in: single bytes,
\* and one that all but fills the largest attribute value
Bulk == [i \in 1..(BLE_ATT_ATTR_MAX_LEN - 1) |-> 0]
ReadFragments(value) ==
  {<<b>> : b \in IF Len(value) < MaxFragment \/ Len(value) >= Len(Bulk)
                  THEN Bytes ELSE {}}
    \cup (IF Len(value) < MaxFragment THEN {Bulk} ELSE {})

\* a read callback that wakes the reader with every fragment
Accumulate_Resume(t, lg, attr) ==
  [task |-> Returned([t EXCEPT !.value = @ \o attr, !.rc = "0"], "success"),
   log |-> Append(lg, Event("status", "0", 0))]

\* RemoteDescriptor.cpp 163-166: a fragment that fits is appended and the
\* callback returns 0 without notifying the reader
Accumulate(t, lg, attr) == [task |-> [t EXCEPT !.value = @ \o attr], log |-> lg]

\* RemoteDescriptor::onReadCB, and the reader it resumes.  foreign: the
\* connection handle of the callback is not the connection id of the client
onReadCB(t, lg, foreign, status, attr, secured, accepted) ==
  IF foreign THEN [task |-> t, log |-> lg]
  ELSE IF status = "0" /\ attr # <<>>
  THEN IF Len(t.value) + Len(attr) > BLE_ATT_ATTR_MAX_LEN
       THEN readValueSwitch([t EXCEPT !.rc = "OTHER"],
                            Append(lg, Event("status", "OTHER", 0)),
                            secured, accepted)
       ELSE Accumulate(t, lg, attr)
  ELSE readValueSwitch([t EXCEPT !.rc = status],
                       Append(lg, Event("status", status, 0)),
                       secured, accepted)

OnReadCB ==
  /\ task.pc = "waiting"
  /\ task.op = "readValue"
  /\ \E foreign \in BOOLEAN, status \in Statuses,
        attr \in {<<>>} \cup ReadFragments(task.value),
        secured \in SecureAnswers, accepted \in SubmitAnswers :
       LET r == onReadCB(task, log, foreign, status, attr, secured, accepted)
       IN  task' = r.task /\ log' = r.log
  /\ UNCHANGED <<m_connEstablished, m_characteristicVector>>
  /\ UNCHANGED OutsideBridge

\* RemoteDescriptor::writeValue up to its first wait
WriteValue ==
  /\ task.pc = "idle"
  /\ \E length \in 0..MaxPayload, response \in BOOLEAN, att_mtu \in Mtus,
        accepted \in SubmitAnswers :
       IF ~m_connEstablished
       THEN /\ task' = Returned(Entered("writeValue"), "failure")
            /\ log' = <<>>
       ELSE LET t == [Entered("writeValue") EXCEPT
                        !.asked = length, !.length = length,
                        !.mtu = (att_mtu - 3) % 65536]
            IN  IF length <= t.mtu /\ ~response
                THEN /\ task' = Returned(t, IF accepted THEN "success" ELSE "failure")
                     /\ log' = <<Event("request", "write_no_rsp", length)>>
                ELSE /\ task' = WriteSubmit(t, <<>>, accepted).task
                     /\ log' = WriteSubmit(t, <<>>, accepted).log
  /\ UNCHANGED <<m_connEstablished, m_characteristicVector>>
  /\ UNCHANGED OutsideBridge

\* a write callback that does not compare the connection handle
onWriteCB_AnyHandle(t, lg, foreign, status, secured, accepted) ==
  writeValueSwitch([t EXCEPT !.rc = status],
                   Append(lg, Event("status", status, 0)), secured, accepted)

\* RemoteDescriptor::onWriteCB, and the writer it resumes
onWriteCB(t, lg, foreign, status, secured, accepted) ==
  IF foreign THEN [task |-> t, log |-> lg]
  ELSE writeValueSwitch([t EXCEPT !.rc = status],
                        Append(lg, Event("status", status, 0)),
                        secured, accepted)

OnWriteCB ==
  /\ task.pc = "waiting"
  /\ task.op = "writeValue"
  /\ \E foreign \in BOOLEAN, status \in Statuses,
        secured \in SecureAnswers, accepted \in SubmitAnswers :
       /\ status = "ATTR_NOT_LONG" => Len(Requests(log)) < MaxRequest
       /\ LET r == onWriteCB(task, log, foreign, status, secured, accepted)
          IN  task' = r.task /\ log' = r.log
  /\ UNCHANGED <<m_connEstablished, m_characteristicVector>>
  /\ UNCHANGED OutsideBridge

\* RemoteService.cpp 211-229: submit the discovery; a refusal returns false
DiscSubmit(t, lg, filter, accepted) ==
  [task |-> [t EXCEPT !.pc = IF accepted THEN "waiting" ELSE "refused",
                      !.filter = filter, !.cursor = 0,
                      !.rc = IF accepted THEN "0" ELSE "OTHER"],
   log |-> Append(lg, Event("request",
                            IF filter = NoUuid THEN "disc_all_chrs"
                            ELSE "disc_chrs_by_uuid", 0))]

\* a discovery that would leave the end handles as the callbacks found them
BackFill_None(vec) == vec

\* RemoteService.cpp 240-250: end handles after an unfiltered discovery
BackFill(vec) ==
  [i \in 1..Len(vec) |->
     [vec[i] EXCEPT !.m_endHandle =
        IF i < Len(vec) THEN vec[i + 1].m_defHandle - 1
        ELSE RemoteSvc.m_endHandle]]

\* a retrieveCharacteristics that fills in the end handles whatever the
\* status of the discovery
Retrieved_AnyStatus(t, vec) ==
  IF t.filter = NoUuid THEN BackFill(vec) ELSE vec

\* RemoteService.cpp 237-260: the vector retrieveCharacteristics leaves
Retrieved(t, vec) ==
  IF t.rc = "0" /\ t.filter = NoUuid THEN BackFill(vec) ELSE vec

\* the other form of the UUID getCharacteristic asks for next;
\* RemoteService.cpp 111-128
OtherForm(u) == IF u.type = 16 THEN to128(u) ELSE to16(u)

\* a getCharacteristic that asks for the other form of the UUID after a
\* discovery that ended with an error as well
AfterRetrieve_RetryFailed(t, lg, vec, accepted) ==
  IF t.op = "retrieveCharacteristics"
  THEN [task |-> Returned(t, IF t.rc = "0" THEN "success" ELSE "failure"),
        log |-> lg]
  ELSE IF t.op = "getCharacteristics"
  THEN [task |-> Returned(t, "vector"), log |-> lg]
  ELSE IF t.rc = "0" /\ Len(vec) > t.prev_size
  THEN [task |-> Returned([t EXCEPT !.found = Len(vec)], "success"), log |-> lg]
  ELSE IF ~t.second /\ (t.uuid.type = 16 \/ OtherForm(t.uuid).type = 16)
  THEN DiscSubmit([t EXCEPT !.second = TRUE], lg, OtherForm(t.uuid), accepted)
  ELSE [task |-> Returned(t, "failure"), log |-> lg]

\* the caller of retrieveCharacteristics once it has returned rc = 0 or
\* not: retrieveCharacteristics itself, getCharacteristics (151-158) or
\* getCharacteristic (104-134)
AfterRetrieve(t, lg, vec, accepted) ==
  IF t.op = "retrieveCharacteristics"
  THEN [task |-> Returned(t, IF t.rc = "0" THEN "success" ELSE "failure"),
        log |-> lg]
  ELSE IF t.op = "getCharacteristics"
  THEN [task |-> Returned(t, "vector"), log |-> lg]
  ELSE IF t.rc # "0"
  THEN [task |-> Returned(t, "failure"), log |-> lg]
  ELSE IF Len(vec) > t.prev_size
  THEN [task |-> Returned([t EXCEPT !.found = Len(vec)], "success"), log |-> lg]
  ELSE IF ~t.second /\ (t.uuid.type = 16 \/ OtherForm(t.uuid).type = 16)
  THEN DiscSubmit([t EXCEPT !.second = TRUE], lg, OtherForm(t.uuid), accepted)
  ELSE [task |-> Returned(t, "failure"), log |-> lg]

\* a caller that takes a refused submission for a discovery that found
\* nothing
Discover_Retry(t, lg, vec, filter, accepted) ==
  LET d == DiscSubmit(t, lg, filter, accepted)
  IN  IF accepted THEN d
      ELSE AfterRetrieve([d.task EXCEPT !.pc = "idle", !.rc = "0"], d.log, vec,
                         FALSE)

\* a submission and, when the host refuses it, the caller's next move,
\* which for getCharacteristic cannot be another submission
Discover(t, lg, vec, filter, accepted) ==
  LET d == DiscSubmit(t, lg, filter, accepted)
  IN  IF accepted THEN d
      ELSE AfterRetrieve([d.task EXCEPT !.pc = "idle"], d.log, vec, FALSE)

CanDiscover == Len(m_characteristicVector) + Len(PeerChrs) <= MaxDisc

\* RemoteService::retrieveCharacteristics up to its wait
RetrieveCharacteristics ==
  /\ task.pc = "idle"
  /\ CanDiscover
  /\ \E filter \in {NoUuid} \cup AskedUuids, accepted \in SubmitAnswers :
       LET r == Discover(Entered("retrieveCharacteristics"), <<>>,
                         m_characteristicVector, filter, accepted)
       IN  task' = r.task /\ log' = r.log
  /\ UNCHANGED <<m_connEstablished, m_characteristicVector>>
  /\ UNCHANGED OutsideBridge

\* RemoteService::getCharacteristic(uuid) up to its wait
GetCharacteristic ==
  /\ task.pc = "idle"
  /\ CanDiscover
  /\ \E uuid \in AskedUuids, accepted \in SubmitAnswers :
       LET hits == {i \in 1..Len(m_characteristicVector) :
                      UuidEquals(m_characteristicVector[i].m_uuid, uuid)}
           t == [Entered("getCharacteristic") EXCEPT
                   !.uuid = uuid, !.prev_size = Len(m_characteristicVector)]
           r == Discover(t, <<>>, m_characteristicVector, uuid, accepted)
       IN  IF hits # {}
           THEN /\ task' = Returned([t EXCEPT !.found =
                                       CHOOSE i \in hits : \A j \in hits : i <= j],
                                    "success")
                /\ log' = <<>>
           ELSE task' = r.task /\ log' = r.log
  /\ UNCHANGED <<m_connEstablished, m_characteristicVector>>
  /\ UNCHANGED OutsideBridge

\* RemoteService::getCharacteristics(refresh) up to its wait
GetCharacteristics ==
  /\ task.pc = "idle"
  /\ \E refresh \in BOOLEAN, accepted \in SubmitAnswers :
       IF refresh
       THEN LET r == Discover(Entered("getCharacteristics"), <<>>, <<>>,
                              NoUuid, accepted)
            IN  /\ m_characteristicVector' = <<>>
                /\ task' = r.task
                /\ log' = r.log
       ELSE /\ task' = Returned(Entered("getCharacteristics"), "vector")
            /\ log' = <<>>
            /\ UNCHANGED m_characteristicVector
  /\ UNCHANGED m_connEstablished
  /\ UNCHANGED OutsideBridge

\* the characteristics of the peer the discovery in progress has yet to
\* report: the host compares the filter with the form the peer exposes
Pending(t) ==
  {i \in (t.cursor + 1)..Len(PeerChrs) :
     t.filter = NoUuid \/ PeerChrs[i].uuid = t.filter}

\* RemoteService::characteristicDiscCB, and the caller it resumes.  The
\* host reports the characteristics of the peer in order, then the end.
characteristicDiscCB(t, lg, vec, foreign, status, accepted) ==
  IF foreign THEN [task |-> t, log |-> lg, vec |-> vec]
  ELSE IF status = "0"
  THEN LET i == CHOOSE i \in Pending(t) : \A j \in Pending(t) : i <= j
       IN  [task |-> [t EXCEPT !.cursor = i],
            log |-> lg,
            vec |-> Append(vec, [m_uuid |-> PeerChrs[i].uuid,
                                 m_defHandle |-> PeerChrs[i].def_handle,
                                 m_endHandle |-> 0])]
  ELSE LET u == [t EXCEPT !.pc = "idle",
                   !.rc = IF status = "BLE_HS_EDONE" THEN "0" ELSE status]
           w == Retrieved(u, vec)
           r == AfterRetrieve(u, Append(lg, Event("status", status, 0)), w,
                              accepted)
       IN  [task |-> r.task, log |-> r.log, vec |-> w]

CharacteristicDiscCB ==
  /\ task.pc = "waiting"
  /\ task.op \in {"retrieveCharacteristics", "getCharacteristic", "getCharacteristics"}
  /\ \E foreign \in BOOLEAN, status \in {"0", "BLE_HS_EDONE", "OTHER"},
        accepted \in SubmitAnswers :
       /\ status = "0" => Pending(task) # {}
       /\ status = "BLE_HS_EDONE" => Pending(task) = {}
       /\ LET r == characteristicDiscCB(task, log, m_characteristicVector,
                                        foreign, status, accepted)
          IN  /\ task' = r.task
              /\ log' = r.log
              /\ m_characteristicVector' = r.vec
  /\ UNCHANGED m_connEstablished
  /\ UNCHANGED OutsideBridge

\* the connection to the peer comes and goes
ClientConnect ==
  /\ ~m_connEstablished
  /\ task.pc = "idle"
  /\ m_connEstablished' = TRUE
  /\ UNCHANGED <<task, log, m_characteristicVector>>
  /\ UNCHANGED OutsideBridge

ClientDisconnect ==
  /\ m_connEstablished
  /\ m_connEstablished' = FALSE
  /\ UNCHANGED <<task, log, m_characteristicVector>>
  /\ UNCHANGED OutsideBridge

(***************************************************************************)
(* The access callback of a descriptor: the host hands a read or a write   *)
(* of the peer to Descriptor::handleGapEvent, a write as a chain of        *)
(* fragments (mbufs).  The host calls it for an existing connection and    *)
(* with the uuid of the definition the callback is registered in.          *)
(***************************************************************************)
\* the data of one fragment, and the chains the peer's writes arrive in
OmData == UNION {[1..n -> Bytes] : n \in 0..(MaxData + 1)}

RECURSIVE TotalLen(_)
TotalLen(om) == IF om = <<>> THEN 0 ELSE Len(Head(om)) + TotalLen(Tail(om))

Oms ==
  {om \in UNION {[1..n -> OmData] : n \in 1..MaxOm} : TotalLen(om) <= MaxTotal}

\* the max_len a descriptor is created with
DscMaxLens == {MaxData, MaxData + 1}

NotConstructed == [made |-> FALSE, m_value |-> Unmade]
\* what the host asks a read with: whether the packet header of the
\* response is longer than 8 bytes, and the MTU of the connection
NoArg == [first |-> FALSE, mtu |-> 0]

NoAccess ==
  [op |-> "none", om |-> <<>>, rc |-> "0", events |-> <<>>, arg |-> NoArg]

\* what the onRead of the application does with the descriptor: nothing,
\* as the default callback, or a setValue
OnReads ==
  {[set |-> FALSE, value |-> <<>>]} \cup {[set |-> TRUE, value |-> v] : v \in Data}

\* AttributeValue::data / size: the bytes a reader of the value gets
DscValue(d) == SubSeq(d.m_value.m_attr_value.bytes, 1, d.m_value.m_attr_len)

\* Descriptor::Descriptor
DescriptorInit(max_len) ==
  AttributeValueInit(Min(CONFIG_NIMBLE_CPP_ATT_VALUE_INIT_LENGTH, max_len),
                     max_len)

\* a loop that copies the fragments without looking at the running total
RECURSIVE Gather_Unchecked(_, _, _)
Gather_Unchecked(buf, next, att_max_len) ==
  IF next = <<>> THEN [ok |-> TRUE, buf |-> buf]
  ELSE Gather_Unchecked(buf \o Head(next), Tail(next), att_max_len)

\* Descriptor.cpp 190-198: the fragments behind the first are copied into
\* buf as long as the running total fits
RECURSIVE Gather(_, _, _)
Gather(buf, next, att_max_len) ==
  IF next = <<>> THEN [ok |-> TRUE, buf |-> buf]
  ELSE IF Len(buf) + Len(Head(next)) > att_max_len
       THEN [ok |-> FALSE, buf |-> buf]
       ELSE Gather(buf \o Head(next), Tail(next), att_max_len)

\* what a handler has done, in order: the value it has stored, the callback
\* it has called and the value the callback has found
Did(ev, d) == [ev |-> ev, value |-> DscValue(d)]

\* Descriptor::setValue: the result of AttributeValue::setValue is dropped
DescriptorSetValue(d, value) ==
  LET r == setValue(d.m_value, value)
      e == [d EXCEPT !.m_value = r.v]
  IN  [d |-> e, abort |-> r.abort,
       events |-> IF r.ret THEN <<Did("setValue", e)>> ELSE <<>>]

\* a write access that stores every fragment as it reads it
RECURSIVE StoreEach(_, _)
StoreEach(r, next) ==
  IF next = <<>> THEN r
  ELSE LET w == DescriptorSetValue(r.d, DscValue(r.d) \o Head(next))
       IN  StoreEach([d |-> w.d, abort |-> r.abort \/ w.abort,
                      events |-> r.events \o w.events], Tail(next))

WriteAccess_PerFragment(d, om) ==
  LET att_max_len == d.m_value.m_attr_max_len
  IN  IF TotalLen(om) > att_max_len
      THEN [d |-> d, rc |-> "BLE_ATT_ERR_INVALID_ATTR_VALUE_LEN",
            events |-> <<>>]
      ELSE LET w == StoreEach(DescriptorSetValue(d, Head(om)), Tail(om))
           IN  [d |-> w.d, rc |-> "0",
                events |-> Append(w.events, Did("onWrite", w.d))]

\* Descriptor::handleGapEvent, BLE_GATT_ACCESS_OP_WRITE_DSC
WriteAccess(d, om) ==
  LET att_max_len == d.m_value.m_attr_max_len
      g == Gather(Head(om), Tail(om), att_max_len)
      w == DescriptorSetValue(d, g.buf)
  IN  IF Len(Head(om)) > att_max_len \/ ~g.ok
      THEN [d |-> d, rc |-> "BLE_ATT_ERR_INVALID_ATTR_VALUE_LEN",
            events |-> <<>>]
      ELSE IF w.abort THEN [d |-> w.d, rc |-> "abort", events |-> w.events]
      ELSE [d |-> w.d, rc |-> "0",
            events |-> Append(w.events, Did("onWrite", w.d))]

\* a read access that copies the value before it calls onRead
DscReadAccess_CopyFirst(d, first, mtu, appended, cb) ==
  LET fresh == first \/ d.m_value.m_attr_len <= mtu - 3
      w == IF fresh /\ cb.set THEN DescriptorSetValue(d, cb.value)
           ELSE [d |-> d, abort |-> FALSE, events |-> <<>>]
  IN  [d |-> w.d,
       rc |-> IF w.abort THEN "abort"
              ELSE IF appended THEN "0" ELSE "BLE_ATT_ERR_INSUFFICIENT_RES",
       events |-> <<Did("os_mbuf_append", d)>>
                    \o (IF fresh THEN <<Did("onRead", d)>> \o w.events ELSE <<>>),
       arg |-> [first |-> first, mtu |-> mtu]]

\* Descriptor::handleGapEvent, BLE_GATT_ACCESS_OP_READ_DSC.  first: the
\* packet header is longer than 8 bytes; appended: os_mbuf_append succeeds;
\* cb: what the onRead of the application does.  The value is copied into
\* the response after onRead has returned.
DscReadAccess(d, first, mtu, appended, cb) ==
  LET fresh == first \/ d.m_value.m_attr_len <= mtu - 3
      w == IF fresh /\ cb.set THEN DescriptorSetValue(d, cb.value)
           ELSE [d |-> d, abort |-> FALSE, events |-> <<>>]
      called == IF fresh THEN <<Did("onRead", d)>> \o w.events ELSE <<>>
  IN  IF w.abort
      THEN [d |-> w.d, rc |-> "abort", events |-> called,
            arg |-> [first |-> first, mtu |-> mtu]]
      ELSE [d |-> w.d,
            rc |-> IF appended THEN "0" ELSE "BLE_ATT_ERR_INSUFFICIENT_RES",
            events |-> Append(called, Did("os_mbuf_append", w.d)),
            arg |-> [first |-> first, mtu |-> mtu]]

Accessed(op, om, r) ==
  /\ pDescriptor' = r.d
  /\ ctxt' = [op |-> op, om |-> om, rc |-> r.rc, events |-> r.events,
              arg |-> IF "arg" \in DOMAIN r THEN r.arg ELSE NoArg]
  /\ UNCHANGED OutsideAccess

AccConstruct ==
  /\ ~pDescriptor.made
  /\ \E max_len \in DscMaxLens :
       LET r == DescriptorInit(max_len)
       IN  Accessed("construct", <<>>,
                    [d |-> [made |-> ~r.abort, m_value |-> r.v],
                     rc |-> IF r.abort THEN "abort" ELSE "0", events |-> <<>>])

AccSetValue ==
  /\ pDescriptor.made /\ ctxt.rc # "abort"
  /\ \E value \in Data :
       LET w == DescriptorSetValue(pDescriptor, value)
       IN  Accessed("setValue", <<value>>,
                    [d |-> w.d, rc |-> IF w.abort THEN "abort" ELSE "0",
                     events |-> w.events])

AccWrite ==
  /\ pDescriptor.made /\ ctxt.rc # "abort"
  /\ \E om \in Oms : Accessed("write", om, WriteAccess(pDescriptor, om))

AccRead ==
  /\ pDescriptor.made /\ ctxt.rc # "abort"
  /\ \E first \in BOOLEAN, mtu \in {MaxData + 2, MaxData + 4},
        appended \in BOOLEAN, cb \in OnReads :
       Accessed("read", <<>>,
                DscReadAccess(pDescriptor, first, mtu, appended, cb))

(***************************************************************************)
(* The subscribe event of the server: a peer writes the client             *)
(* configuration of a notify/indicate characteristic and the host reports  *)
(* it to Server::handleGapEvent with the value handle of the               *)
(* characteristic, the connection and the two bits now in force.           *)
(***************************************************************************)
\* the properties that make the handler look at the link
SecurityProps == {"READ_AUTHEN", "READ_AUTHOR", "READ_ENC"}

\* the properties of the characteristics Server::start puts on its list
SubProps ==
  {{"NOTIFY"}, {"NOTIFY", "READ_ENC"}, {"INDICATE", "READ_AUTHEN"},
   {"INDICATE", "READ_AUTHOR"}}

\* the client configuration a peer writes: 0 for none, the notify bit, and
\* with a larger bound the indicate bit
SubValues == 0..MaxSubVal

NoSubscribe ==
  [attr_handle |-> 0, conn_handle |-> 0, value |-> 0, found |-> TRUE,
   encrypted |-> TRUE, calls |-> <<>>]

\* what a connection has subscribed to in a subscriber vector, 0 if nothing
Subscription(vec, conn) ==
  LET hit == {i \in 1..Len(vec) : vec[i][1] = conn}
  IN  IF hit = {} THEN 0 ELSE vec[CHOOSE i \in hit : TRUE][2]

\* Characteristic::setSubscribe: the entry of the connection takes the new
\* value, is added when there is none and is erased when the value is 0
setSubscribe(vec, conn, val) ==
  LET hit == {i \in 1..Len(vec) : vec[i][1] = conn}
  IN  IF hit = {}
      THEN IF val > 0 THEN Append(vec, <<conn, val>>) ELSE vec
      ELSE LET i == CHOOSE i \in hit : TRUE
           IN  IF val = 0 THEN EraseAt(vec, i)
               ELSE [vec EXCEPT ![i] = <<conn, val>>]

\* a subscribe handler that records the subscription whatever
\* ble_gap_conn_find returns
onSubscribe_Unchecked(chrs, ev, found, encrypted) ==
  LET hit == {i \in 1..Len(chrs) : chrs[i].m_handle = ev.attr_handle}
      i == CHOOSE i \in hit : \A j \in hit : i <= j
  IN  IF hit = {} THEN [chrs |-> chrs, calls |-> <<>>]
      ELSE [chrs |-> [chrs EXCEPT ![i].m_subscribedVec =
                        setSubscribe(@, ev.conn_handle, ev.value)],
            calls |-> <<"ble_gap_conn_find", "setSubscribe">>]

\* Server.cpp 391-407: the first characteristic of the list with the
\* handle of the event, the look at the link, the subscription
onSubscribe(chrs, ev, found, encrypted) ==
  LET hit == {i \in 1..Len(chrs) : chrs[i].m_handle = ev.attr_handle}
      i == CHOOSE i \in hit : \A j \in hit : i <= j
      secure == chrs[i].m_properties \cap SecurityProps # {}
      looked == IF secure THEN <<"ble_gap_conn_find">> ELSE <<>>
      asked == IF secure /\ ~encrypted THEN Append(looked, "startSecurity")
               ELSE looked
  IN  IF hit = {} THEN [chrs |-> chrs, calls |-> <<>>]
      ELSE IF secure /\ ~found THEN [chrs |-> chrs, calls |-> looked]
      ELSE [chrs |-> [chrs EXCEPT ![i].m_subscribedVec =
                        setSubscribe(@, ev.conn_handle, ev.value)],
            calls |-> Append(asked, "setSubscribe")]

\* Server.cpp 210-215: Server::start puts a characteristic that notifies
\* or indicates on the list; the host has given it a handle of its own
PushNotifyChr ==
  /\ Len(notifyChrs) < MaxSubChr
  /\ \E props \in SubProps :
       notifyChrs' = Append(notifyChrs,
                            [m_handle |-> Len(notifyChrs) + 1,
                             m_properties |-> props,
                             m_subscribedVec |-> <<>>])
  /\ UNCHANGED subscribe
  /\ UNCHANGED OutsideSubscribe

\* BLE_GAP_EVENT_SUBSCRIBE; what ble_gap_conn_find and isEncrypted answer
\* is recorded where the handler asks
SubscribeEvent ==
  /\ \E attr_handle \in 1..MaxSubChr, conn \in ConnHandles,
        value \in SubValues, found \in BOOLEAN, encrypted \in BOOLEAN :
       LET ev == [attr_handle |-> attr_handle, conn_handle |-> conn,
                  value |-> value]
           r == onSubscribe(notifyChrs, ev, found, encrypted)
           looked == "ble_gap_conn_find" \in Range(r.calls)
       IN  /\ notifyChrs' = r.chrs
           /\ subscribe' = [attr_handle |-> attr_handle, conn_handle |-> conn,
                            value |-> value,
                            found |-> looked => found,
                            encrypted |-> (looked /\ found) => encrypted,
                            calls |-> r.calls]
  /\ UNCHANGED OutsideSubscribe

(***************************************************************************)
(* The wait of a bridge operation, statement by statement.  The calling   *)
(* context submits the request, clears its task notification value where  *)
(* the build has ulTaskNotifyValueClear, and takes the notification; the  *)
(* host context runs the terminal callback at any moment after the        *)
(* submission.                                                             *)
(***************************************************************************)
WakeOps == {"readValue", "writeValue", "retrieveCharacteristics"}

NoCaller == [pc |-> "idle", op |-> "none", ulNotifiedValue |-> 0, rc |-> "0",
             retryCount |-> 0, requests |-> 0, result |-> "none",
             clears |-> FALSE]

\* the statuses the terminal callback of an operation can carry
WakeStatuses(op) ==
  IF op = "retrieveCharacteristics" THEN {"BLE_HS_EDONE", "OTHER"} ELSE Statuses

\* ble_gattc_*: RemoteDescriptor.cpp 101-108 and 272-288, RemoteService.cpp
\* 211-229; a refusal returns at once
WakeSubmit(c, accepted) ==
  IF accepted
  THEN [c EXCEPT !.pc = "submitted", !.requests = @ + 1]
  ELSE [c EXCEPT !.pc = "idle", !.requests = @ + 1, !.result = "failure"]

\* ulTaskNotifyValueClear(cur_task, ULONG_MAX) where the build defines it;
\* RemoteDescriptor.cpp 110-113 and 290-293, RemoteService.cpp 231-234
WakeCleared(c) ==
  [c EXCEPT !.pc = "taking",
            !.ulNotifiedValue = IF c.clears THEN 0 ELSE @]

\* the caller after ulTaskNotifyTake has returned: RemoteDescriptor.cpp
\* 115-136 and 295-317, RemoteService.cpp 237-259.  A write answered with
\* "attribute not long" counts its retry up (304) and down again (317).
WakeResumed(c, secured, accepted) ==
  LET ok == [c EXCEPT !.pc = "idle", !.result = "success"]
      failed == [c EXCEPT !.pc = "idle", !.result = "failure"]
  IN  IF c.op = "retrieveCharacteristics"
      THEN IF c.rc = "0" THEN ok ELSE failed
      ELSE IF c.rc \in {"0", "BLE_HS_EDONE"} THEN ok
      ELSE IF c.rc = "ATTR_NOT_LONG"
      THEN IF c.op = "readValue" THEN ok
           ELSE WakeSubmit([c EXCEPT !.retryCount = @ + 1 - 1], accepted)
      ELSE IF c.rc \in Insufficient /\ c.retryCount # 0 /\ secured
      THEN WakeSubmit([c EXCEPT !.retryCount = @ - 1], accepted)
      ELSE failed

\* an application task calls a bridge operation, in a build with or without
\* ulTaskNotifyValueClear
WakeCall ==
  /\ caller.pc = "idle"
  /\ ~inflight
  /\ \E op \in WakeOps, clears \in BOOLEAN, accepted \in BOOLEAN :
       /\ caller' = WakeSubmit([NoCaller EXCEPT !.op = op, !.retryCount = 1,
                                  !.clears = clears,
                                  !.ulNotifiedValue = caller.ulNotifiedValue],
                               accepted)
       /\ inflight' = accepted
  /\ UNCHANGED OutsideWake

\* the statement between the submission and the wait
WakeClear ==
  /\ caller.pc = "submitted"
  /\ caller' = WakeCleared(caller)
  /\ UNCHANGED inflight
  /\ UNCHANGED OutsideWake

\* ulTaskNotifyTake(pdTRUE, portMAX_DELAY) returns once the notification
\* value is not zero, and resets it
WakeTake ==
  /\ caller.pc = "taking"
  /\ caller.ulNotifiedValue > 0
  /\ \E secured \in BOOLEAN, accepted \in BOOLEAN :
       /\ caller' = WakeResumed([caller EXCEPT !.ulNotifiedValue = 0],
                                secured, accepted)
       /\ inflight' = (caller'.pc = "submitted")
  /\ UNCHANGED OutsideWake

\* the terminal callback on the host context: pTaskData->rc = status;
\* xTaskNotifyGive(pTaskData->task).  RemoteDescriptor.cpp 176-177 and
\* 212-213, RemoteService.cpp 184-193
WakeCallback ==
  /\ inflight
  /\ \E status \in WakeStatuses(caller.op) :
       /\ (status = "ATTR_NOT_LONG" /\ caller.op = "writeValue")
            => caller.requests < MaxRequest
       /\ caller' = [caller EXCEPT
                       !.rc = IF caller.op = "retrieveCharacteristics"
                                 /\ status = "BLE_HS_EDONE"
                              THEN "0" ELSE status,
                       !.ulNotifiedValue = @ + 1]
       /\ inflight' = FALSE
  /\ UNCHANGED OutsideWake

InitWake ==
  /\ caller = NoCaller
  /\ inflight = FALSE

NextWake == WakeCall \/ WakeClear \/ WakeTake \/ WakeCallback

InitSubscribe ==
  /\ notifyChrs = <<>>
  /\ subscribe = NoSubscribe

NextSubscribe == PushNotifyChr \/ SubscribeEvent

InitAccess ==
  /\ pDescriptor = NotConstructed
  /\ ctxt = NoAccess

InitBridge ==
  /\ m_connEstablished = TRUE
  /\ m_characteristicVector = <<>>
  /\ task = NoTask
  /\ log = <<>>

InitServer ==
  /\ m_svcVec = Fresh.m_svcVec
  /\ m_connectedPeersVec = Fresh.m_connectedPeersVec
  /\ m_gattsStarted = Fresh.m_gattsStarted
  /\ m_svcChanged = Fresh.m_svcChanged
  /\ m_indWait = Fresh.m_indWait
  /\ m_notifyChrVec = Fresh.m_notifyChrVec
  /\ services = Fresh.services
  /\ characteristics = Fresh.characteristics
  /\ descriptors = Fresh.descriptors
  /\ gatts = Fresh.gatts
  /\ obs = Fresh.obs
  /\ app \in Applications
  /\ indAdmitted = [h \in ConnHandles |-> 0]
  /\ crashed = FALSE

vars == <<srvVars, valVars, raceVars, bridgeVars, accVars, subVars, wakeVars>>

Init ==
  InitServer /\ InitValue /\ InitRace /\ InitBridge /\ InitAccess
    /\ InitSubscribe /\ InitWake

\* the attribute tree, its compilation and the connections
NextServer ==
  \/ CreateService
  \/ RemoveService
  \/ AddService
  \/ CreateCharacteristic
  \/ AddCharacteristic
  \/ RemoveCharacteristic
  \/ StartService
  \/ StartServer
  \/ Connect
  \/ Disconnect

Spec == Init /\ [][NextServer]_vars

\* the application building and editing the tree of one server that no
\* peer is connected to
NextTree ==
  \/ CreateService
  \/ CreateCharacteristic
  \/ AddCharacteristic
  \/ RemoveCharacteristic
  \/ CreateDescriptor
  \/ RemoveDescriptor
  \/ StartService
  \/ StartServer

SpecTree == Init /\ [][NextTree]_vars

\* every way the application changes the tree, before and after the start
\* of the server, with peers coming and going
NextChange ==
  \/ CreateService
  \/ AddNewService
  \/ RemoveService
  \/ AddService
  \/ CreateCharacteristic
  \/ RemoveCharacteristic
  \/ StartService
  \/ StartServer
  \/ Connect
  \/ Disconnect

SpecChange == Init /\ [][NextChange]_vars

GetServiceHandle ==
  /\ ~crashed
  /\ \E s \in AppSvcs :
       LET T == ServiceGetHandle(Begin, s)
       IN  Finish([T EXCEPT !.obs.handle =
                     [kind |-> "svc", id |-> s,
                      ret |-> T.services[s].m_handle]])
  /\ UNCHANGED indAdmitted

GetDescriptorHandle ==
  /\ ~crashed
  /\ \E s \in AppSvcs :
       \E c \in AppChrs(s) :
         \E d \in AppDscs(c) :
           Finish([Begin EXCEPT !.obs.handle =
                     [kind |-> "dsc", id |-> d,
                      ret |-> DescriptorGetHandle(Begin, d)]])
  /\ UNCHANGED indAdmitted

\* the application asking for handles while it builds and starts the tree
NextHandle ==
  \/ CreateService
  \/ CreateCharacteristic
  \/ CreateDescriptor
  \/ StartService
  \/ StartServer
  \/ GetServiceHandle
  \/ GetDescriptorHandle

SpecHandle == Init /\ [][NextHandle]_vars

\* the application starting a service again, on a server that peers may be
\* connected to
NextRestart ==
  \/ CreateService
  \/ CreateCharacteristic
  \/ RemoveCharacteristic
  \/ StartService
  \/ RestartService
  \/ StartServer
  \/ Connect

SpecRestart == Init /\ [][NextRestart]_vars

\* peers coming and going while the application edits a started server
NextPeers ==
  \/ CreateService
  \/ RemoveService
  \/ StartService
  \/ StartServer
  \/ ConnectEvent
  \/ DisconnectEvent

SpecPeers == Init /\ [][NextPeers]_vars

\* the indication bookkeeping of a server
NextIndicate ==
  \/ CreateService
  \/ CreateCharacteristic
  \/ StartService
  \/ StartServer
  \/ Connect
  \/ Disconnect
  \/ SetIndicateWait
  \/ NotifyTx

SpecIndicate == Init /\ [][NextIndicate]_vars

\* a program using AttributeValue objects
NextValue ==
  \/ ValConstruct
  \/ ValConstructFrom
  \/ ValSetValue
  \/ ValAppend
  \/ ValCopyAssign
  \/ ValMoveAssign

SpecValue == Init /\ [][NextValue]_vars

\* a writing task and a reading task on one AttributeValue
NextRace ==
  \/ WriterSetValue
  \/ WriterAppend
  \/ WriterCritical
  \/ ReadAccess

SpecRace == Init /\ [][NextRace]_vars

\* an application task using the bridge of one client
NextBridge ==
  \/ ClientConnect
  \/ ClientDisconnect
  \/ ReadValue
  \/ OnReadCB
  \/ WriteValue
  \/ OnWriteCB
  \/ RetrieveCharacteristics
  \/ GetCharacteristic
  \/ GetCharacteristics
  \/ CharacteristicDiscCB

SpecBridge == Init /\ [][NextBridge]_vars

\* the accesses to one descriptor
NextAccess ==
  \/ AccConstruct
  \/ AccSetValue
  \/ AccWrite
  \/ AccRead

SpecAccess == Init /\ [][NextAccess]_vars

(***************************************************************************)
(* Claims about the server.                                                *)
(***************************************************************************)
Registered(s) == s \in Range(gatts.defs)

\* the table Service::start compiles from the Active characteristics
ActiveTable(s) ==
  LET q == SelectSeq(services[s].m_characteristics,
                     LAMBDA c : characteristics[c].m_removed = 0)
  IN  [isNull |-> FALSE,
       characteristics |->
         Terminated(
           [i \in 1..Len(q) |->
              [chr |-> q[i], flags |-> characteristics[q[i]].m_properties,
               dscs |-> Terminated([j \in 1..Len(ActiveDscs(Cur, q[i])) |->
                                      [dsc |-> ActiveDscs(Cur, q[i])[j]]],
                                   DscSentinel)]],
           ChrSentinel)]

\* C1: whenever the body of resetGATT (host table reset, deletion of the
\* PendingDelete services, Service::start of the Active ones) has executed in
\* a handler, the connected count it executed under was 0.
C1_ResetOnlyWithoutPeers == obs.resetConn \in {-1, 0}

\* a reset has run and has started an Active service again
C1_Witness ==
  /\ obs.resetConn = 0 /\ ~crashed
  /\ \E s \in Range(m_svcVec) : Registered(s)

\* C2: from a state in which the server is started, a peer is connected and
\* the changed flag is set, a step that leaves a peer connected leaves the
\* flag set, and the step that empties the peer set performs the reset: the
\* flag is clear, no PendingDelete service is left in the collection, every
\* Hidden service is still in the collection and is not registered, every
\* Active service carries a freshly compiled table and is registered.
C2_DeferredReset ==
  [][(m_gattsStarted /\ m_svcChanged /\ m_connectedPeersVec # <<>>)
       => /\ ~crashed'
          /\ IF m_connectedPeersVec' # <<>> THEN m_svcChanged'
             ELSE /\ ~m_svcChanged'
                  /\ \A s \in Range(m_svcVec) :
                       /\ services[s].m_removed = NIMBLE_ATT_REMOVE_DELETE
                            => s \notin Range(m_svcVec')
                       /\ services[s].m_removed = NIMBLE_ATT_REMOVE_HIDE
                            => s \in Range(m_svcVec') /\ ~Registered(s)'
                       /\ services[s].m_removed = 0
                            => /\ s \in Range(m_svcVec')
                               /\ Registered(s)'
                               /\ services'[s].m_pSvcDef = ActiveTable(s)']_vars

\* C3: no handler frees a Characteristic or a Service while a peer is
\* connected.
C3_NoFreeWhileConnected == obs.freedWhileConn = {}

\* C4: between two runs of clearIndicateWait(h), setIndicateWait(h) returns
\* true at most once.
C4_OneOutstandingIndication == \A h \in ConnHandles : indAdmitted[h] <= 1

(***************************************************************************)
(* Claims about AttributeValue.                                            *)
(***************************************************************************)
\* C5: a setValue of at most max_size() bytes returns true and leaves the
\* object with exactly these bytes, their length, and a capacity of at least
\* that length; a longer one returns false and leaves the object as it was.
C5_SetValue ==
  [][call'.op = "setValue" =>
       LET v == values[call'.who]
           w == values'[call'.who]
           data == call'.data
       IN  IF Len(data) <= v.m_attr_max_len
           THEN /\ ~call'.abort
                /\ call'.ret
                /\ w.m_attr_len = Len(data)
                /\ ~w.m_attr_value.null
                /\ w.m_attr_value.bytes = data
                /\ w.m_capacity >= w.m_attr_len
           ELSE /\ ~call'.abort
                /\ ~call'.ret
                /\ w = v]_vars

\* C6: every constructed AttributeValue has
\* length <= capacity <= max_length <= 512.
C6_LengthCapacityMax ==
  \A n \in ValNames :
    values[n].made =>
      /\ values[n].m_attr_len <= values[n].m_capacity
      /\ values[n].m_capacity <= values[n].m_attr_max_len
      /\ values[n].m_attr_max_len <= BLE_ATT_ATTR_MAX_LEN

\* C7: a read access finds the buffer pointer referring to a block that has
\* not been released, and the bytes it copies are the complete value from
\* before the write in progress or the complete value that write stores.
C7_ReaderSeesOldOrNew ==
  reader.done => /\ ~reader.freed
                 /\ reader.bytes \in {reader.old, reader.new}

(***************************************************************************)
(* Claims about the client-side bridge.                                    *)
(***************************************************************************)
\* C8: an operation of the bridge called while the client is not connected
\* has returned at once as a failure and has submitted no request to the
\* host.
C8_DisconnectedFailsWithoutRequest ==
  (task.op # "none" /\ ~task.online) =>
    /\ task.pc = "idle"
    /\ task.result = "failure"
    /\ Requests(log) = <<>>

InsufficientAt(i) == log[i].ev = "status" /\ log[i].kind \in Insufficient
UpgradedBefore(i) == \E j \in 1..(i - 1) : log[j] = Event("secure", "ok", 0)
RequestBefore(i) ==
  log[CHOOSE j \in 1..(i - 1) :
        /\ log[j].ev = "request"
        /\ \A k \in (j + 1)..(i - 1) : log[k].ev # "request"]
Over(i, result) == Len(log) = i /\ task.pc = "idle" /\ task.result = result

\* C9: in readValue and writeValue, the first completion with an
\* insufficient-security status is followed by one security upgrade; when
\* the upgrade succeeds the same request is submitted once more and its
\* completion decides the result (success on a success status, failure on
\* an error status or on a refused submission); when the upgrade fails the
\* operation is over as a failure with no further request; a later
\* insufficient-security status is the end of the operation as a failure,
\* with no further upgrade and no further request.
C9_OneSecurityRetry ==
  task.op \in {"readValue", "writeValue"} =>
    \A i \in 1..Len(log) :
      InsufficientAt(i) =>
        IF UpgradedBefore(i)
        THEN Over(i, "failure")
        ELSE /\ Len(log) > i
             /\ log[i + 1].ev = "secure"
             /\ log[i + 1].kind = "failed" => Over(i + 1, "failure")
             /\ log[i + 1].kind = "ok" =>
                  /\ Len(log) >= i + 2
                  /\ log[i + 2] = RequestBefore(i)
                  /\ (Len(log) = i + 2) =>
                       \/ task.pc = "waiting"
                       \/ task.pc = "idle" /\ task.result = "failure"
                  /\ (Len(log) > i + 2) =>
                       /\ log[i + 3].ev = "status"
                       /\ log[i + 3].kind \in {"0", "BLE_HS_EDONE"} =>
                            Over(i + 3, "success")
                       /\ log[i + 3].kind \in Insufficient \cup {"OTHER"} =>
                            Over(i + 3, "failure")
                       /\ (log[i + 3].kind = "ATTR_NOT_LONG" /\ task.op = "readValue") =>
                            Over(i + 3, "success")

\* a retry after a successful upgrade was answered with insufficient
\* security again
C9_Witness ==
  /\ task.op \in {"readValue", "writeValue"}
  /\ \E i \in 1..Len(log) :
       /\ InsufficientAt(i)
       /\ ~UpgradedBefore(i)
       /\ Len(log) = i + 3
       /\ log[i + 1] = Event("secure", "ok", 0)
       /\ log[i + 2] = RequestBefore(i)
       /\ InsufficientAt(i + 3)
       /\ task.pc = "idle"
       /\ task.result = "failure"

\* C10: a writeValue of more bytes than the MTU less 3 first submits a long
\* write of the whole payload; when that completes with "attribute not
\* long" the next request is a single-frame write of MTU less 3 bytes, and
\* when this one completes with success the operation returns success.
C10_LongWriteFallback ==
  (task.op = "writeValue" /\ task.online /\ task.asked > task.mtu) =>
    /\ Len(log) >= 1
    /\ log[1] = Event("request", "write_long", task.asked)
    /\ (Len(log) >= 2 /\ log[2] = Event("status", "ATTR_NOT_LONG", 0)) =>
         /\ Len(log) >= 3
         /\ log[3] = Event("request", "write_flat", task.mtu)
         /\ (Len(log) >= 4 /\ log[4].ev = "status"
               /\ log[4].kind \in {"0", "BLE_HS_EDONE"}) =>
              Over(4, "success")

\* the peer refused the long write and took the truncated one
C10_Witness ==
  /\ task.op = "writeValue"
  /\ task.asked > task.mtu
  /\ Len(log) = 4
  /\ log[1] = Event("request", "write_long", task.asked)
  /\ log[2] = Event("status", "ATTR_NOT_LONG", 0)
  /\ log[3] = Event("request", "write_flat", task.mtu)
  /\ log[4] = Event("status", "0", 0)
  /\ task.pc = "idle"
  /\ task.result = "success"

\* a discovery callback has resumed the caller of retrieveCharacteristics
DiscoveryEnded ==
  /\ task.pc = "waiting"
  /\ task.op \in {"retrieveCharacteristics", "getCharacteristic", "getCharacteristics"}
  /\ Len(log') > Len(log)

\* C11: when an unfiltered discovery ends with success, every characteristic
\* of the vector has as end handle the definition handle of its successor
\* less 1, and the last one the end handle of the service; a discovery by
\* UUID changes the end handle of no characteristic already in the vector
\* and leaves the ones it adds as they were constructed.
C11_EndHandleBackFill ==
  [][DiscoveryEnded =>
       IF task.filter = NoUuid
       THEN task'.rc = "0" =>
              /\ Len(m_characteristicVector') = Len(m_characteristicVector)
              /\ \A i \in 1..Len(m_characteristicVector') :
                   /\ m_characteristicVector'[i].m_defHandle =
                        m_characteristicVector[i].m_defHandle
                   /\ m_characteristicVector'[i].m_endHandle =
                        IF i < Len(m_characteristicVector')
                        THEN m_characteristicVector[i + 1].m_defHandle - 1
                        ELSE RemoteSvc.m_endHandle
       ELSE m_characteristicVector' = m_characteristicVector]_vars

\* an unfiltered discovery has returned true with both characteristics of
\* the peer at the end of the vector, back-filled
C11_Witness ==
  /\ task.op = "retrieveCharacteristics"
  /\ task.filter = NoUuid
  /\ task.pc = "idle"
  /\ task.result = "success"
  /\ Len(m_characteristicVector) >= Len(PeerChrs)
  /\ \A i \in 1..Len(m_characteristicVector) :
       m_characteristicVector[i].m_endHandle =
         IF i < Len(m_characteristicVector)
         THEN m_characteristicVector[i + 1].m_defHandle - 1
         ELSE RemoteSvc.m_endHandle

(***************************************************************************)
(* Claims about the attribute table compiler.                              *)
(***************************************************************************)
InHostTable(s) == \E i \in 1..Len(gatts.entries) : gatts.entries[i].svc = s

\* the Active characteristics of a service and their Active descriptors
ActiveAttrs(s) ==
  LET tab == UpToEnd(ActiveTable(s).characteristics, ChrSentinel)
  IN  {<<"chr", tab[i].chr>> : i \in 1..Len(tab)}
      \cup UNION {{<<"dsc", e.dsc>> :
                     e \in Range(UpToEnd(tab[i].dscs, DscSentinel))} :
                   i \in 1..Len(tab)}

\* Characteristic::getHandle, Descriptor::getHandle
HandleOf(a) ==
  IF a[1] = "chr" THEN characteristics[a[2]].m_handle
  ELSE descriptors[a[2]].m_handle

\* C12: once the server is started with an Active service whose compiled
\* table is the one of its present tree and is in the host's table, the
\* handles of its Active characteristics and of their Active descriptors
\* are all assigned (not 0xFFFF) and pairwise distinct.
C12_HandlesDistinctAssigned ==
  \A s \in Range(m_svcVec) :
    (/\ ~crashed /\ m_gattsStarted /\ ~m_svcChanged
     /\ services[s].alloc = "live" /\ services[s].m_removed = 0
     /\ InHostTable(s)
     /\ services[s].m_pSvcDef = ActiveTable(s))
    => /\ \A a \in ActiveAttrs(s) : HandleOf(a) # NULL_HANDLE
       /\ \A a, b \in ActiveAttrs(s) : a # b => HandleOf(a) # HandleOf(b)

\* C13: when Service::start is called on a service a second time, no other
\* operation in between, the flattened table after the second call is the
\* table after the first (same characteristic entries, same descriptor
\* entries, same order) and no attribute's handle has changed.
C13_StartTwiceSameTable ==
  [][(obs.started # 0 /\ obs'.started = obs.started /\ ~crashed')
       => /\ services'[obs.started].m_pSvcDef = services[obs.started].m_pSvcDef
          /\ \A c \in ChrIds :
               characteristics'[c].m_handle = characteristics[c].m_handle
          /\ \A d \in DscIds :
               descriptors'[d].m_handle = descriptors[d].m_handle]_vars

\* the second call has queued the service again, on a server whose changed
\* flag makes every call rebuild the table
C13_Witness ==
  /\ ~crashed /\ obs.started # 0 /\ m_svcChanged
  /\ Cardinality({i \in 1..Len(gatts.defs) : gatts.defs[i] = obs.started}) >= 2
  /\ services[obs.started].m_pSvcDef # Nullptr
  /\ services[obs.started].m_pSvcDef.characteristics # <<>>

\* the characteristics that the table of service s has entries for
TableChrs(def) ==
  IF def = Nullptr THEN {}
  ELSE {e.chr : e \in Range(UpToEnd(def.characteristics, ChrSentinel))}

\* C14: after a successful Service::start with no peer connected, no
\* characteristic removed with deleteChr = true is left in the service's
\* collection; a characteristic removed with deleteChr = false is still in
\* the collection and no table built by the call has an entry for it.
C14_RemovedCharacteristicSwept ==
  [][(obs'.started # 0 /\ obs'.ret /\ ~crashed' /\ m_connectedPeersVec = <<>>)
       => LET s == obs'.started IN
          /\ \A c \in Range(services'[s].m_characteristics) :
               characteristics'[c].m_removed # NIMBLE_ATT_REMOVE_DELETE
          /\ \A c \in Range(services[s].m_characteristics) :
               characteristics[c].m_removed = NIMBLE_ATT_REMOVE_HIDE
                 => /\ c \in Range(services'[s].m_characteristics)
                    /\ services'[s].m_pSvcDef # services[s].m_pSvcDef
                         => c \notin TableChrs(services'[s].m_pSvcDef)]_vars

\* the Active members of a collection, in collection order
ActiveOf(q, objs) == SelectSeq(q, LAMBDA x : objs[x].m_removed = 0)

\* the entries a rebuilt table is to hold: one for every Active
\* characteristic, with the characteristic as its context, holding one for
\* every Active descriptor of it
TableFrom(coll, chrs, dscs, always) ==
  LET q == ActiveOf(coll, chrs)
      Ended(a, end) == IF always THEN Append(a, end) ELSE Terminated(a, end)
  IN  Ended([i \in 1..Len(q) |->
               [chr |-> q[i], flags |-> chrs[q[i]].m_properties,
                dscs |-> Ended(
                  [j \in 1..Len(ActiveOf(chrs[q[i]].m_dscVec, dscs)) |->
                     [dsc |-> ActiveOf(chrs[q[i]].m_dscVec, dscs)[j]]],
                  DscSentinel)]],
            ChrSentinel)

EntriesOf(s, always) ==
  TableFrom(services[s].m_characteristics, characteristics, descriptors,
            always)

\* no PendingDelete characteristic is left in the collection of s, and no
\* PendingDelete descriptor in the vector of an Active characteristic of s
Swept(s) ==
  \A c \in Range(services[s].m_characteristics) :
    /\ characteristics[c].m_removed # NIMBLE_ATT_REMOVE_DELETE
    /\ characteristics[c].m_removed = 0
         => \A d \in Range(characteristics[c].m_dscVec) :
              descriptors[d].m_removed # NIMBLE_ATT_REMOVE_DELETE

\* a call of Service::start on s that rebuilds the table (Service.cpp 111,
\* 120) and returns
Rebuilds(s) ==
  /\ obs'.started = s /\ ~crashed'
  /\ services[s].m_pSvcDef = Nullptr \/ m_svcChanged

\* C15 as stated: after every rebuild the characteristic array is the Active
\* characteristics in collection order followed by one sentinel, each of
\* its descriptor arrays is the Active descriptors in order followed by one
\* sentinel, every entry has its own attribute as context, and the
\* PendingDelete attributes are gone from the tree.
C15_AlwaysSentinel ==
  [][\A s \in SvcIds :
       Rebuilds(s) => /\ services'[s].m_pSvcDef.characteristics
                           = EntriesOf(s, TRUE)'
                      /\ Swept(s)']_vars

\* C15, amended: the same, except that an array with no entry is not
\* allocated at all: its pointer is null and there is no sentinel.
C15_SentinelUnlessEmpty ==
  [][\A s \in SvcIds :
       Rebuilds(s) => /\ services'[s].m_pSvcDef.characteristics
                           = EntriesOf(s, FALSE)'
                      /\ Swept(s)']_vars

\* a started service with a Hidden characteristic and an Active one that has
\* a descriptor entry and a Hidden descriptor
C15_Witness ==
  /\ ~crashed /\ obs.started # 0 /\ obs.ret
  /\ \E c \in Range(services[obs.started].m_characteristics) :
       characteristics[c].m_removed = NIMBLE_ATT_REMOVE_HIDE
  /\ \E e \in Range(services[obs.started].m_pSvcDef.characteristics) :
       /\ e # ChrSentinel
       /\ e.dscs # <<>>

\* the members of a collection that are not PendingDelete, in order
KeptOf(q, objs) ==
  SelectSeq(q, LAMBDA x : objs[x].m_removed # NIMBLE_ATT_REMOVE_DELETE)

\* C16: addCharacteristic(c) on a Hidden characteristic c of an Active
\* service s leaves c Active and exactly once in the collection of s, in
\* its place among the characteristics that are kept, and the table a
\* rebuild makes of the tree is the one it would make had c not been hidden.
C16_HideThenAddRestores ==
  [][\A s \in SvcIds, c \in ChrIds :
       (/\ obs'.added = c /\ ~crashed'
        /\ services[s].alloc = "live" /\ services[s].m_removed = 0
        /\ s \in Range(m_svcVec)
        /\ c \in Range(services[s].m_characteristics)
        /\ characteristics[c].alloc = "live"
        /\ characteristics[c].m_removed = NIMBLE_ATT_REMOVE_HIDE)
       => /\ characteristics'[c].m_removed = 0
          /\ Cardinality({i \in 1..Len(services'[s].m_characteristics) :
                            services'[s].m_characteristics[i] = c}) = 1
          /\ KeptOf(services'[s].m_characteristics, characteristics')
               = KeptOf(services[s].m_characteristics, characteristics)
          /\ EntriesOf(s, FALSE)'
               = TableFrom(services[s].m_characteristics,
                           [characteristics EXCEPT ![c].m_removed = 0],
                           descriptors, FALSE)]_vars

\* a characteristic that was hidden and added again stands before another
\* one in the collection, and has its entry in the table
C16_Witness ==
  /\ ~crashed /\ obs.added # 0
  /\ \E s \in Range(m_svcVec) :
       /\ Len(services[s].m_characteristics) >= 2
       /\ services[s].m_characteristics[1] = obs.added
       /\ obs.added \in TableChrs(services[s].m_pSvcDef)

\* the service whose collection holds the characteristic that holds d
OwnersOf(d) ==
  {s \in SvcIds : \E c \in Range(services[s].m_characteristics) :
                    d \in Range(characteristics[c].m_dscVec)}

\* C17: getHandle of a service whose table has never been compiled, or of a
\* descriptor of such a service, does not return a handle: what the caller
\* gets is the unassigned value 0xFFFF.
C17_NoHandleBeforeCompile ==
  ~crashed =>
    /\ \A s \in SvcIds :
         (/\ obs.handle.kind = "svc" /\ obs.handle.id = s
          /\ services[s].m_pSvcDef = Nullptr)
         => obs.handle.ret = NULL_HANDLE
    /\ \A d \in DscIds :
         (/\ obs.handle.kind = "dsc" /\ obs.handle.id = d
          /\ \A s \in OwnersOf(d) : services[s].m_pSvcDef = Nullptr)
         => obs.handle.ret = NULL_HANDLE

\* C18: a call of Service::start asks the host to size the table first; if
\* that fails the call returns false and has not asked the host to add the
\* table; otherwise it asks the host to add the table and returns true exactly
\* when that has succeeded.
C18_TwoPhaseRegistration ==
  (obs.started # 0 /\ ~crashed)
    => /\ obs.calls # <<>>
       /\ obs.calls[1].fn = "ble_gatts_count_cfg"
       /\ obs.calls[1].rc # 0 => Len(obs.calls) = 1 /\ ~obs.ret
       /\ obs.calls[1].rc = 0
            => /\ Len(obs.calls) = 2
               /\ obs.calls[2].fn = "ble_gatts_add_svcs"
               /\ obs.ret <=> obs.calls[2].rc = 0

\* a call that has failed in the sizing pass
C18_Witness ==
  /\ obs.started # 0 /\ ~crashed /\ ~obs.ret
  /\ obs.calls = <<HostCall("ble_gatts_count_cfg", TRUE)>>
  /\ services[obs.started].m_pSvcDef # Nullptr

(***************************************************************************)
(* Claims about the access callback of a descriptor.                       *)
(***************************************************************************)
\* the fragments of a chain, one behind the other
RECURSIVE Concat(_)
Concat(om) == IF om = <<>> THEN <<>> ELSE Head(om) \o Concat(Tail(om))

\* the first fragment, or the first fragments taken together, are longer
\* than the descriptor's maximum
Exceeds(om, d) ==
  \E k \in 1..Len(om) : TotalLen(SubSeq(om, 1, k)) > d.m_value.m_attr_max_len

\* C19: a write access whose first fragment or running total of fragments
\* exceeds the maximum length of the descriptor returns
\* BLE_ATT_ERR_INVALID_ATTR_VALUE_LEN, leaves the descriptor as it was and
\* calls no callback.
C19_OverlongWriteRejected ==
  [][(ctxt'.op = "write" /\ Exceeds(ctxt'.om, pDescriptor))
       => /\ ctxt'.rc = "BLE_ATT_ERR_INVALID_ATTR_VALUE_LEN"
          /\ pDescriptor' = pDescriptor
          /\ ctxt'.events = <<>>]_vars

\* a chain whose first fragment fits and whose total does not has been
\* refused, and the value written before is still there
C19_Witness ==
  /\ ctxt.op = "write" /\ ctxt.rc = "BLE_ATT_ERR_INVALID_ATTR_VALUE_LEN"
  /\ Len(ctxt.om) >= 2
  /\ Len(ctxt.om[1]) <= pDescriptor.m_value.m_attr_max_len
  /\ Len(ctxt.om[1]) > 0
  /\ DscValue(pDescriptor) # <<>>

\* C20: a write access whose fragments total at most the maximum length
\* stores one value, the fragments one behind the other in order, then
\* calls onWrite once, which finds that value, and returns 0; nothing else
\* is stored or called.
C20_WriteStoresWholeValueOnce ==
  [][(ctxt'.op = "write" /\ ~Exceeds(ctxt'.om, pDescriptor))
       => /\ ctxt'.rc = "0"
          /\ ctxt'.events = <<[ev |-> "setValue", value |-> Concat(ctxt'.om)],
                              [ev |-> "onWrite", value |-> Concat(ctxt'.om)]>>
          /\ DscValue(pDescriptor') = Concat(ctxt'.om)
          /\ pDescriptor'.m_value.m_attr_max_len
               = pDescriptor.m_value.m_attr_max_len]_vars

\* a chain of three fragments, none empty, has been stored
C20_Witness ==
  /\ ctxt.op = "write" /\ ctxt.rc = "0"
  /\ Len(ctxt.om) = MaxOm
  /\ \A i \in 1..Len(ctxt.om) : ctxt.om[i] # <<>>
  /\ DscValue(pDescriptor) = Concat(ctxt.om)

(***************************************************************************)
(* Claims about the server's events.                                       *)
(***************************************************************************)
Peers == Range(m_connectedPeersVec)

\* C21: the peer set holds each connected handle once, so that
\* getConnectedCount is their number; a connect event with status 0 adds
\* its handle, a connect event with another status changes nothing and
\* calls no onConnect, a disconnect event takes its handle out, and no
\* other step changes the peer set.
C21_PeerSetTracksEvents ==
  /\ [](~crashed => getConnectedCount(Cur) = Cardinality(Peers))
  /\ [][~crashed' =>
          LET e == obs'.event IN
          /\ (e.type = "connect" /\ e.status = 0)
               => Peers' = Peers \cup {e.conn_handle}
          /\ (e.type = "connect" /\ e.status # 0)
               => m_connectedPeersVec' = m_connectedPeersVec /\ ~e.cb
          /\ e.type = "disconnect" => Peers' = Peers \ {e.conn_handle}
          /\ e.type = "none" => m_connectedPeersVec' = m_connectedPeersVec
       ]_vars

\* one of two connected peers has disconnected
C21_Witness ==
  /\ ~crashed /\ obs.event.type = "disconnect"
  /\ Peers # {} /\ obs.event.conn_handle \notin Peers

(***************************************************************************)
(* C22: the callbacks of a discovery and of a read, and the blocked caller *)
(***************************************************************************)
\* the caller waits for the callbacks of a discovery or of a read
Blocked ==
  /\ task.pc = "waiting"
  /\ task.op \in {"readValue", "retrieveCharacteristics", "getCharacteristic",
                  "getCharacteristics"}

\* the status the step resumes the caller with, "none" when it does not
ResumedBy ==
  IF Len(log') > Len(log) /\ SubSeq(log', 1, Len(log)) = log
       /\ log'[Len(log) + 1].ev = "status"
  THEN log'[Len(log) + 1].kind
  ELSE "none"

\* the step adds a fragment to the result or a child to the collection
Collected ==
  \/ Len(task'.value) > Len(task.value)
  \/ Len(m_characteristicVector') > Len(m_characteristicVector)

\* C22: while the caller of a discovery or of a read is blocked, a callback
\* that appends a discovered child or a read fragment leaves it blocked and
\* wakes nobody; the caller stops waiting for a request only by being
\* resumed, a discovery by the done status or an error, a read by any
\* callback that brings no fragment that fits; and every resumption answers
\* a request of its own: a status event follows a request event directly
\* and a blocked caller's last event is the request it waits for.
C22_ResumedOnceByTerminalCallback ==
  /\ [](task.op \in {"readValue", "retrieveCharacteristics", "getCharacteristic",
                     "getCharacteristics"}
          => /\ \A i \in 1..Len(log) :
                  log[i].ev = "status" => i > 1 /\ log[i - 1].ev = "request"
             /\ Blocked => log # <<>> /\ log[Len(log)].ev = "request")
  /\ [][Blocked =>
          /\ Collected => ResumedBy = "none" /\ log' = log /\ Blocked'
                            /\ task'.op = task.op
          /\ (task'.pc # "waiting" \/ log' # log) => ResumedBy # "none"
          /\ ResumedBy # "none" => ~Collected
          /\ task.op # "readValue" => ResumedBy \in {"none", "BLE_HS_EDONE", "OTHER"}]_vars

\* a long read gathered fragments in silence up to the largest value and
\* was resumed once, by the fragment that no longer fits
C22_Witness ==
  /\ task.op = "readValue" /\ task.pc = "idle"
  /\ Len(task.value) = BLE_ATT_ATTR_MAX_LEN
  /\ Len(log) = 2 /\ log[2].ev = "status" /\ log[2].kind = "OTHER"

(***************************************************************************)
(* C23: structural changes of a started server                             *)
(***************************************************************************)
\* the attribute tree: the collection of services, their tags, their
\* collections of characteristics and the tags of these
TreeOf ==
  [vec |-> m_svcVec,
   svc |-> [s \in SvcIds |-> <<services[s].m_removed,
                               services[s].m_characteristics>>],
   chr |-> [c \in ChrIds |-> characteristics[c].m_removed]]

\* the operations of the application that change the structure of the
\* tree; createCharacteristic adds through Service::addCharacteristic
StructuralOp ==
  \/ CreateService
  \/ AddNewService
  \/ AddService
  \/ RemoveService
  \/ CreateCharacteristic
  \/ RemoveCharacteristic

\* C23: when createService, addService, removeService, addCharacteristic or
\* removeCharacteristic changes the tree of a started server, the peers are
\* told that the attribute database changed and a reset is attempted: with
\* no peer connected it runs at once, otherwise it stays pending with the
\* changed flag set.
C23_ChangeWhileStartedResets ==
  [][(m_gattsStarted /\ ~crashed /\ ~crashed' /\ StructuralOp
        /\ TreeOf' # TreeOf)
       => /\ obs'.changed
          /\ IF getConnectedCount(Cur) = 0
             THEN obs'.resetConn = 0 /\ ~m_svcChanged'
             ELSE obs'.resetConn = -1 /\ m_svcChanged']_vars

(***************************************************************************)
(* C24: a compiled table and the changes made after it was built           *)
(***************************************************************************)
\* C24: whatever was added to or removed from a service since its table
\* was built, and whether the server was never started, is started or has
\* been reset, the table a call of Service::start leaves behind and hands
\* to the host is the one built from the tree as it is now: an entry for
\* every Active characteristic and descriptor, in order, and for no other.
C24_StartNeverRegistersStaleTable ==
  [][\A s \in SvcIds :
       (obs'.started = s /\ ~crashed')
         => services'[s].m_pSvcDef.characteristics = EntriesOf(s, FALSE)']_vars

(***************************************************************************)
(* C25: the started flag                                                   *)
(***************************************************************************)
\* C25: the started flag is false at first; it becomes true only in a call
\* of Server::start that runs to its end; once true it becomes false only
\* in a reset that a structural change asked for (in the same call, or
\* earlier and left pending) and that ran with no peer connected; and a
\* call of Server::start on a started server changes nothing of the server
\* or of the host's table.
C25_StartedFlag ==
  /\ ~m_gattsStarted
  /\ [][/\ (~m_gattsStarted /\ m_gattsStarted')
             => StartServer /\ ~crashed' /\ ~obs'.abort
        /\ (m_gattsStarted /\ ~m_gattsStarted' /\ ~crashed')
             => /\ obs'.resetConn = 0
                /\ m_connectedPeersVec' = <<>>
                /\ obs'.changed \/ m_svcChanged
        /\ (m_gattsStarted /\ StartServer) => ~crashed' /\ Begin' = Begin]_vars

\* the reset that a change made under a connection left pending has run at
\* the disconnect of the last peer and has put the server back in Idle
C25_Witness ==
  /\ ~crashed /\ ~m_gattsStarted
  /\ obs.event.type = "disconnect" /\ obs.resetConn = 0
  /\ m_svcVec # <<>>

(***************************************************************************)
(* C26: a reset with nothing pending, executed twice                       *)
(***************************************************************************)
\* what a reset is to leave alone the second time: the collection of
\* services, their tags and tables, the two flags and what the host holds
ResetView(S) ==
  [m_svcVec |-> S.m_svcVec,
   m_removed |-> [s \in SvcIds |-> S.services[s].m_removed],
   m_pSvcDef |-> [s \in SvcIds |-> S.services[s].m_pSvcDef],
   m_svcChanged |-> S.m_svcChanged,
   m_gattsStarted |-> S.m_gattsStarted,
   gatts |-> S.gatts]

\* the answers of the host to the Service::start calls of one reset
ResetAnswers == [SvcIds -> HostRcs]

\* C26: in every reachable state with no peer connected and the changed
\* flag clear, executing resetGATT twice, the host answering alike, leaves
\* the service collection, the removal tags, every compiled table, both
\* flags and the host's queue of services as executing it once does.
C26_ResetIdempotent ==
  (~crashed /\ getConnectedCount(Cur) = 0 /\ ~m_svcChanged)
    => \A rcs \in ResetAnswers :
         ResetView(resetGATT(resetGATT(Begin, rcs), rcs))
           = ResetView(resetGATT(Begin, rcs))

\* a server whose first reset has work to do: a Hidden service to pass
\* over, and a service to build the table of and to hand to the host
C26_Witness ==
  /\ ~crashed /\ getConnectedCount(Cur) = 0 /\ ~m_svcChanged
  /\ \E s \in Range(m_svcVec) :
       services[s].m_removed = NIMBLE_ATT_REMOVE_HIDE
  /\ \E s \in Range(m_svcVec) :
       services[s].m_removed = 0 /\ services[s].m_pSvcDef = Nullptr
  /\ \A rcs \in ResetAnswers :
       ResetView(resetGATT(Begin, rcs)) # ResetView(Begin)

(***************************************************************************)
(* C27: the subscribe event of a characteristic that asks for security     *)
(***************************************************************************)
SpecSubscribe == Init /\ [][NextSubscribe]_vars

\* the characteristic a subscribe event is for: the one with its handle
SubscribedTo == {i \in 1..Len(notifyChrs) :
                   notifyChrs[i].m_handle = subscribe'.attr_handle}

\* C27: a subscribe event for a characteristic whose properties ask for
\* encryption, authentication or authorization looks the connection up;
\* when there is no record of it, nothing else is called and no subscriber
\* vector changes; otherwise the handler asks for security first if, and
\* only if, the link is not encrypted, and then calls setSubscribe, which
\* leaves the characteristic with the value of the event for that
\* connection and every other characteristic as it was.
C27_SecureThenSubscribe ==
  [][(Len(notifyChrs') = Len(notifyChrs) /\ subscribe'.attr_handle # 0)
       => \A i \in SubscribedTo :
            notifyChrs[i].m_properties \cap SecurityProps # {}
              => LET e == subscribe'
                 IN  IF ~e.found
                     THEN /\ e.calls = <<"ble_gap_conn_find">>
                          /\ notifyChrs' = notifyChrs
                     ELSE /\ e.calls =
                               IF e.encrypted
                               THEN <<"ble_gap_conn_find", "setSubscribe">>
                               ELSE <<"ble_gap_conn_find", "startSecurity",
                                      "setSubscribe">>
                          /\ Subscription(notifyChrs'[i].m_subscribedVec,
                                          e.conn_handle) = e.value
                          /\ \A j \in 1..Len(notifyChrs) :
                               j # i => notifyChrs'[j] = notifyChrs[j]]_vars

\* a peer on a link not yet encrypted has subscribed to a characteristic
\* that asks for security: security was asked for, then the connection was
\* entered in the subscriber vector
C27_Witness ==
  /\ subscribe.calls = <<"ble_gap_conn_find", "startSecurity", "setSubscribe">>
  /\ subscribe.value > 0
  /\ \E i \in 1..Len(notifyChrs) :
       /\ notifyChrs[i].m_handle = subscribe.attr_handle
       /\ Subscription(notifyChrs[i].m_subscribedVec, subscribe.conn_handle)
            = subscribe.value
       /\ Len(notifyChrs[i].m_subscribedVec) = MaxConn

(***************************************************************************)
(* C28: the read access of a descriptor                                    *)
(***************************************************************************)
\* the positions of the calls of onRead among the events of an access
OnReadAt(events) == {i \in 1..Len(events) : events[i].ev = "onRead"}

\* C28: a read access of a descriptor that is not a continuation (packet
\* header longer than 8, or a stored value of at most MTU - 3 bytes) calls
\* onRead once, first, with the value as stored, and copies into the
\* response the value as it is when onRead has returned; a continuation
\* calls no onRead and copies the stored value; and the access leaves the
\* stored value as it was unless onRead itself has set it.
C28_ReadCallsOnReadFirst ==
  [][(ctxt'.op = "read" /\ ctxt'.rc # "abort")
       => LET e == ctxt'.events
              fresh == ctxt'.arg.first
                         \/ Len(DscValue(pDescriptor)) <= ctxt'.arg.mtu - 3
          IN  /\ e # <<>> /\ e[Len(e)] = Did("os_mbuf_append", pDescriptor')
              /\ \A i \in 1..(Len(e) - 1) : e[i].ev # "os_mbuf_append"
              /\ IF fresh
                 THEN OnReadAt(e) = {1} /\ e[1] = Did("onRead", pDescriptor)
                 ELSE OnReadAt(e) = {} /\ Len(e) = 1
              /\ (\A i \in 1..Len(e) : e[i].ev # "setValue")
                   => pDescriptor' = pDescriptor]_vars

\* a first read whose onRead has set another value: the response carries
\* the new value
C28_Witness ==
  /\ ctxt.op = "read" /\ ctxt.rc = "0" /\ ~ctxt.arg.first
  /\ Len(ctxt.events) = 3
  /\ ctxt.events[1].ev = "onRead"
  /\ ctxt.events[3].ev = "os_mbuf_append"
  /\ ctxt.events[3].value # ctxt.events[1].value
  /\ ctxt.events[3].value # <<>>

(***************************************************************************)
(* C29: move assignment and copy assignment of an AttributeValue           *)
(***************************************************************************)
\* the other of the two objects of the program
OtherValue(n) == CHOOSE m \in ValNames : m # n

\* C29: a = std::move(b) leaves a with the buffer, the length, the capacity
\* and the maximum length b had, and b without a buffer and with length 0;
\* a = b leaves a with a buffer of its own holding the bytes of b, and b as
\* it was; and a setValue or an append on one object leaves the other as
\* it was.
C29_MoveEmptiesSource ==
  [][LET a == call'.who
         b == OtherValue(call'.who)
     IN  /\ call'.op = "move"
              => /\ values'[a].m_attr_value = values[b].m_attr_value
                 /\ values'[a].m_attr_len = values[b].m_attr_len
                 /\ values'[a].m_capacity = values[b].m_capacity
                 /\ values'[a].m_attr_max_len = values[b].m_attr_max_len
                 /\ values'[b].m_attr_value.null
                 /\ values'[b].m_attr_len = 0
         /\ (call'.op = "copy" /\ ~call'.abort /\ ~call'.ub)
              => /\ ~values'[a].m_attr_value.null
                 /\ values'[a].m_attr_value.bytes = values[b].m_attr_value.bytes
                 /\ values'[a].m_attr_len = values[b].m_attr_len
                 /\ values'[b] = values[b]
         /\ (call'.op \in {"setValue", "append"} /\ ~call'.abort)
              => values'[b] = values[b]]_vars

(***************************************************************************)
(* C30: a request the host refuses at submission                           *)
(***************************************************************************)
\* the operation has returned and the last thing it did was to submit a
\* request that the host refused: no completion follows the request
LastRequestRefused ==
  /\ task.pc = "idle" /\ log # <<>>
  /\ log[Len(log)].ev = "request"
  /\ ~(log[Len(log)].kind = "write_no_rsp" /\ task.result = "success")

\* the events the step has added to the log of the operation
AddedEvents ==
  IF task.pc = "idle" THEN log' ELSE SubSeq(log', Len(log) + 1, Len(log'))

DiscStatuses == {"0", "BLE_HS_EDONE", "OTHER"}

ForeignIgnored ==
  \A status \in Statuses, secured \in SecureAnswers, accepted \in SubmitAnswers :
    /\ task.op = "readValue" =>
         \A attr \in {<<>>} \cup ReadFragments(task.value) :
           onReadCB(task, log, TRUE, status, attr, secured, accepted)
             = [task |-> task, log |-> log]
    /\ task.op = "writeValue" =>
         onWriteCB(task, log, TRUE, status, secured, accepted)
           = [task |-> task, log |-> log]
    /\ /\ task.op \in {"retrieveCharacteristics", "getCharacteristic",
                       "getCharacteristics"}
       /\ status \in DiscStatuses
       /\ status = "0" => Pending(task) # {}
       => characteristicDiscCB(task, log, m_characteristicVector, TRUE,
                               status, accepted)
            = [task |-> task, log |-> log, vec |-> m_characteristicVector]

C31_ForeignCallbackIgnored ==
  task.pc = "waiting" => ForeignIgnored

\* a writer is blocked, the callback of another connection leaves it
\* blocked, and the same callback on its own connection would resume it
C31_Witness ==
  /\ task.pc = "waiting"
  /\ task.op = "writeValue"
  /\ onWriteCB(task, log, TRUE, "0", FALSE, FALSE).task.pc = "waiting"
  /\ onWriteCB(task, log, FALSE, "0", FALSE, FALSE).task.pc = "idle"
  /\ ForeignIgnored

\* ---------------------------------------------------------------------
\* C32: getCharacteristic(uuid) returns the cached characteristic without
\* a host request when the collection holds one with that UUID; on a miss
\* it submits a discovery filtered by the UUID; when that discovery
\* completes without error and without a new child, and the UUID has
\* another form (16 bit -> 128 bit, 128 bit on the base UUID -> 16 bit), it
\* submits one more discovery filtered by the other form, and in no other
\* case; a call submits at most two requests
GetChr == task.op = "getCharacteristic"

CacheHits ==
  {i \in 1..task.prev_size :
     UuidEquals(m_characteristicVector[i].m_uuid, task.uuid)}

HasOtherForm(u) == u.type = 16 \/ (u.type = 128 /\ u.base)

TheOtherForm(u) ==
  IF u.type = 16 THEN Uuid128(u.value, TRUE) ELSE Uuid16(u.value)

GetChrRequests ==
  GetChr =>
    /\ Len(Requests(log)) <= 2
    /\ \A i \in 1..Len(log) :
         log[i].ev = "request" => log[i].kind = "disc_chrs_by_uuid"
    /\ CacheHits # {} =>
         /\ log = <<>>
         /\ task.pc = "idle"
         /\ task.result = "success"
         /\ task.found \in CacheHits
         /\ \A j \in CacheHits : task.found <= j
    /\ CacheHits = {} =>
         /\ log # <<>>
         /\ log[1].ev = "request"
    /\ Len(Requests(log)) = 2 =>
         /\ task.second
         /\ HasOtherForm(task.uuid)
         /\ log[2] = Event("status", "BLE_HS_EDONE", 0)
         /\ log[3].ev = "request"
         /\ task.filter = TheOtherForm(task.uuid)
    /\ Len(Requests(log)) = 1 /\ task.pc = "waiting" => task.filter = task.uuid

\* the first discovery of a getCharacteristic ends in this step
FirstEnds ==
  /\ GetChr
  /\ task.pc = "waiting"
  /\ ~task.second
  /\ Len(log') > Len(log)

FoundNothing ==
  /\ log'[Len(log) + 1] = Event("status", "BLE_HS_EDONE", 0)
  /\ Len(m_characteristicVector') = task.prev_size

Overflowing ==
  {attr \in ReadFragments(task.value) :
     Len(task.value) + Len(attr) > BLE_ATT_ATTR_MAX_LEN}

OverflowEndsWait ==
  (task.pc = "waiting" /\ task.op = "readValue") =>
    \A attr \in Overflowing, secured \in SecureAnswers, accepted \in SubmitAnswers :
      LET r == onReadCB(task, log, FALSE, "0", attr, secured, accepted)
      IN  /\ r.task.value = task.value
          /\ r.task.pc = "idle"
          /\ r.task.result = "failure"
          /\ Requests(r.log) = Requests(log)

C33_OverflowReportedAsError ==
  /\ OverflowEndsWait
  /\ (task.pc = "waiting" /\ task.op = "readValue") =>
       \A attr \in Overflowing :
         ReadReturn(onReadCB(task, log, FALSE, "0", attr, FALSE, FALSE).task) = <<>>

\* ---------------------------------------------------------------------
\* C34: a readValue whose long read ends with "attribute not long" returns
\* successfully with exactly the bytes gathered from the fragments before
\* that status; it submits no further request, asks for no security
\* upgrade and leaves the retry count as it was
C34_NotLongEndsReadWithGathered ==
  (task.pc = "waiting" /\ task.op = "readValue") =>
    \A secured \in SecureAnswers, accepted \in SubmitAnswers :
      LET r == onReadCB(task, log, FALSE, "ATTR_NOT_LONG", <<>>, secured, accepted)
      IN  /\ r.task.pc = "idle"
          /\ r.task.result = "success"
          /\ ReadReturn(r.task) = task.value
          /\ r.task.retryCount = task.retryCount
          /\ r.log = Append(log, Event("status", "ATTR_NOT_LONG", 0))

\* a read that gathered a fragment and then ended with "attribute not long"
C34_Witness ==
  /\ task.op = "readValue"
  /\ task.pc = "idle"
  /\ task.result = "success"
  /\ log = <<Event("request", "read_long", 0), Event("status", "ATTR_NOT_LONG", 0)>>
  /\ Len(ReadReturn(task)) = 1
  /\ task.retryCount = 1

\* ---------------------------------------------------------------------
\* C35: a discovery that ends with an error status makes
\* retrieveCharacteristics return false with the collection as the
\* callbacks of that request left it: while the request is in flight
\* children are only appended, with no end handle, and the terminal error
\* removes nothing, changes nothing and fills in no end handle, for a
\* discovery started by getCharacteristics(true) as for any other
Discovering ==
  /\ task.pc = "waiting"
  /\ task.op \in {"retrieveCharacteristics", "getCharacteristic",
                  "getCharacteristics"}

EndsWithError == ResumedBy \notin {"none", "BLE_HS_EDONE"}

ChildAppended ==
  /\ Len(m_characteristicVector') = Len(m_characteristicVector) + 1
  /\ SubSeq(m_characteristicVector', 1, Len(m_characteristicVector))
       = m_characteristicVector
  /\ m_characteristicVector'[Len(m_characteristicVector')].m_endHandle = 0

C35_RefreshReached ==
  /\ task.op = "getCharacteristics"
  /\ task.pc = "idle"
  /\ log # <<>> /\ log[Len(log)] = Event("status", "OTHER", 0)
  /\ Len(m_characteristicVector) = 1
  /\ m_characteristicVector[1].m_endHandle = 0

\* ---------------------------------------------------------------------
SpecWake == Init /\ [][NextWake]_vars

\* C36: no wake-up is lost: a caller that waits has either a notification
\* to take or a request in flight whose terminal callback will give one,
\* also when the callback ran between the submission and the clearing of
\* the notification value
C36_NoLostWakeup ==
  caller.pc = "taking" => (caller.ulNotifiedValue > 0 \/ inflight)

\* ---------------------------------------------------------------------
\* C37: writeValue ends after a bounded number of requests whatever the
\* peer answers: the locals that decide what the writer does next are its
\* retry count and the length it writes, so a writer that is resumed and
\* waits again must wait with other locals than before; one that waits
\* again with the same locals submits the same request for the same answer
\* without end
WriteLocals(t) == <<t.retryCount, t.length, t.mtu>>

C37_WriteTerminates ==
  (task.pc = "waiting" /\ task.op = "writeValue") =>
    \A status \in Statuses, secured \in SecureAnswers :
      LET r == onWriteCB(task, log, FALSE, status, secured, TRUE)
      IN  r.task.pc = "waiting" => WriteLocals(r.task) # WriteLocals(task)

\* ---------------------------------------------------------------------
\* C38: removeCharacteristic(c, true) on a characteristic c that is already
\* removed takes exactly c out of the collection of the service and frees
\* exactly c: the other characteristics stay in the collection, in their
\* order, and stay live, wherever c stands
C38_DeleteRemovedFreesExactlyIt ==
  ~crashed =>
    \A s \in AppSvcs, rcs \in RcMaps :
      \A c \in AppChrs(s) :
        characteristics[c].m_removed > 0 =>
          LET q == services[s].m_characteristics
              T == removeCharacteristic(Begin, s, c, TRUE, rcs)
          IN  /\ T.services[s].m_characteristics
                   = SelectSeq(q, LAMBDA x : x # c)
              /\ T.characteristics[c].alloc = "freed"
              /\ \A x \in Range(q) \ {c} :
                   T.characteristics[x].alloc = characteristics[x].alloc
              /\ ~T.obs.ub

\* ---------------------------------------------------------------------
\* C39: whatever starts, structural changes, connections, disconnections
\* and resets there were, the list the server dispatches subscribe and
\* notify-tx events from holds no characteristic twice, none that has been
\* deleted and none whose service has been deleted or is no longer a
\* service of the server
NotifyOwners(c) ==
  {s \in Range(m_svcVec) :
     services[s].alloc = "live" /\ c \in Range(services[s].m_characteristics)}

C39_NotifyListSound ==
  ~crashed =>
    /\ \A i, j \in 1..Len(m_notifyChrVec) :
         m_notifyChrVec[i] = m_notifyChrVec[j] => i = j
    /\ \A i \in 1..Len(m_notifyChrVec) :
         /\ characteristics[m_notifyChrVec[i]].alloc = "live"
         /\ NotifyOwners(m_notifyChrVec[i]) # {}

\* ---------------------------------------------------------------------
\* C40: a successful readValue returns the fragments of its last request
\* only: fragments are appended to what the reader holds, so when a
\* request that delivered fragments ends with insufficient security and
\* the read is submitted again, the reader starts the new request with
\* nothing gathered
ReadRetried ==
  /\ task.op = "readValue" /\ task.pc = "waiting"
  /\ task'.op = "readValue" /\ task'.pc = "waiting"
  /\ Len(Requests(log')) = Len(Requests(log)) + 1

C40_RetryDropsGathered ==
  [][ReadRetried => ReadReturn(task') = <<>>]_vars

====
